---- MODULE Spec2Model ----
(***************************************************************************)
(* teremock: an in-process mock of the Telegram Bot API.                   *)
(* The model covers the shared server State (files, responses, messages),  *)
(* the request handlers of the server and the MockBot dispatch harness.    *)
(***************************************************************************)
EXTENDS Integers, Sequences, FiniteSets, TLC

VARIABLES
    state,              \* Arc<Mutex<State>>: [files, responses, messages]
    updates,            \* MockBot.updates: the pending updates
    current_update_id,  \* MockBot.current_update_id (AtomicI32)
    pc,                 \* position of the test/harness: "idle", "reset_done", "running"
    stream,             \* SingleUpdateStream.updates of the running dispatch
    handling,           \* the update the handler tree is working on, if any
    last,               \* the most recent API call of the running dispatch and its response
    made,               \* the successful API calls of the running dispatch, as the bot saw them
    issued_max,         \* the greatest message id the server has synthesized so far
    ncalls,             \* number of API calls handled so far (all dispatches)
    ndispatch,          \* number of dispatch() calls started so far
    nupdate,            \* number of update(x) calls so far
    issued,             \* the update ids stamped so far, in the order they were issued
    yielded,            \* the updates the stream of the running dispatch has yielded so far
    server,             \* ServerManager and the tasks of run_server
    api_url,            \* MockBot.api_url
    bot_api_url,        \* the API URL of the bot client handed to the dispatcher task
    mutex,              \* the Mutex around State: who holds it, and whether it is poisoned
    inflight,           \* the requests the server is working on, per connection
    handed              \* the stream the last dispatch handed to the dispatcher, None after update(x)

vars == <<state, updates, current_update_id, pc, stream, handling, last, made, issued_max, ncalls, ndispatch, nupdate,
          issued, yielded, server, api_url, bot_api_url, mutex, inflight, handed>>

\* the variables of the server lifecycle and of the lock
lifecycle == <<server, api_url, mutex, inflight>>

----------------------------------------------------------------------------
(* Bounds of the exploration *)

MaxCalls == 3
MaxDispatches == 2
MaxUploads == 2
MaxUpdates == 3
MaxStops == 2

----------------------------------------------------------------------------
(* Option<T> as a sequence of length 0 or 1 *)

None == <<>>
Some(x) == <<x>>
IsSome(o) == Len(o) > 0
IsNone(o) == Len(o) = 0
Unwrap(o) == o[1]

Max(S) == CHOOSE x \in S : \A y \in S : y <= x

----------------------------------------------------------------------------
(* Entities *)

\* MockMe::new().build(): the bot user the server is started with
Me == "bot"

\* MockMessageText::ID, the default message id of the builders
MockMessageText_ID == 1

\* common.rs: chat id used when a username is given instead of a numeric id
DEFAULT_TEXT_CHAT_ID == 123456789

DEFAULT_FILE_PATH == "some_path.txt"

Chat(id, kind) == [id |-> id, kind |-> kind]

is_channel(chat) == chat.kind = "channel"

\* BodyChatId: Id(i64) or Text(username)
BodyId(n) == [tag |-> "Id", id |-> n]
BodyText == [tag |-> "Text", id |-> 0]

\* BodyChatId::id()
BodyChatId_id(c) == IF c.tag = "Id" THEN c.id ELSE DEFAULT_TEXT_CHAT_ID

\* BodyChatId::chat()
BodyChatId_chat(c) == Chat(BodyChatId_id(c), "private")

FileMeta(id, unique_id, size) == [id |-> id, unique_id |-> unique_id, size |-> size]

\* A Message of kind Common; Option fields are sequences of length 0 or 1.
Message(id, chat, from, sender_chat, text, file) ==
    [id |-> id, chat |-> chat, from |-> from, sender_chat |-> sender_chat,
     text |-> text, entities |-> <<>>, reply_markup |-> None,
     has_protected_content |-> FALSE, forward_origin |-> None,
     reply_to_message |-> None, file |-> file, dice |-> None, media |-> None]

\* ReplyMarkup: InlineKeyboard(kb) or another variant (Keyboard, ForceReply, ...)
InlineKeyboard(kb) == [variant |-> "InlineKeyboard", kb |-> kb]
Keyboard(kb) == [variant |-> "Keyboard", kb |-> kb]

----------------------------------------------------------------------------
(* Responses: the per-endpoint log *)

Responses_default ==
    [sent_messages |-> <<>>,
     sent_messages_text |-> <<>>,
     forwarded_messages |-> <<>>,
     edited_messages_text |-> <<>>,
     deleted_messages |-> <<>>,
     banned_chat_members |-> <<>>,
     sent_messages_photo |-> <<>>,
     sent_messages_video |-> <<>>,
     sent_messages_audio |-> <<>>,
     sent_messages_voice |-> <<>>,
     sent_messages_video_note |-> <<>>,
     sent_messages_animation |-> <<>>,
     sent_messages_document |-> <<>>,
     sent_messages_sticker |-> <<>>,
     sent_messages_dice |-> <<>>,
     sent_messages_location |-> <<>>,
     sent_messages_venue |-> <<>>,
     sent_messages_contact |-> <<>>,
     sent_messages_poll |-> <<>>,
     sent_chat_actions |-> <<>>,
     pinned_chat_messages |-> <<>>,
     unpinned_chat_messages |-> <<>>,
     set_message_reaction |-> <<>>]

\* State::default()
State_default == [files |-> <<>>, responses |-> Responses_default, messages |-> <<>>]

----------------------------------------------------------------------------
(* Messages: the message store, a map from message id to message *)

\* Messages::max_message_id: 0 when the store is empty
max_message_id(messages) ==
    IF DOMAIN messages = {} THEN 0 ELSE Max(DOMAIN messages)

\* Messages::get_message: a clone of the stored message
get_message(messages, message_id) ==
    IF message_id \in DOMAIN messages THEN Some(messages[message_id]) ELSE None

\* Messages::add_message: stores the message under its id
Messages_add_message(messages, message) ==
    [i \in DOMAIN messages \cup {message.id} |->
        IF i = message.id THEN message ELSE messages[i]]

\* Messages::edit_message: replaces the message stored under the same id
Messages_edit_message(messages, message) ==
    IF message.id \in DOMAIN messages
    THEN [messages EXCEPT ![message.id] = message]
    ELSE messages

\* Messages::edit_message_field for the fields the handlers edit
edit_message_field(messages, message_id, field, value) ==
    IF message_id \notin DOMAIN messages THEN messages
    ELSE IF field = "text" THEN [messages EXCEPT ![message_id].text = Some(value)]
    ELSE IF field = "entities" THEN [messages EXCEPT ![message_id].entities = value]
    ELSE messages

\* Messages::edit_message_reply_markup: a stored message holds an inline
\* keyboard only
edit_message_reply_markup(messages, message_id, reply_markup) ==
    IF message_id \notin DOMAIN messages THEN messages
    ELSE [messages EXCEPT ![message_id].reply_markup =
            IF IsSome(reply_markup) /\ Unwrap(reply_markup).variant = "InlineKeyboard"
            THEN Some(Unwrap(reply_markup).kb) ELSE None]

\* Messages::delete_message: removes the message stored under the id
Messages_delete_message(messages, message_id) ==
    [i \in DOMAIN messages \ {message_id} |-> messages[i]]

\* check_if_message_exists!
message_exists(messages, message_id) == message_id \in DOMAIN messages

----------------------------------------------------------------------------
(* State *)

\* extract_file_meta: the file of a media message
extract_file_meta(message) == message.file

File(meta, path) == [meta |-> meta, path |-> path]

\* variant: the reset forgets to replace the response log
reset_keeps_log(st) == st

\* variant: the reset replaces the whole State
reset_whole_state(st) == [files |-> <<>>, responses |-> Responses_default, messages |-> <<>>]

\* State::reset
reset(st) == [st EXCEPT !.responses = Responses_default]

\* variant: the message is stored under the id it came with, whatever is stored
State_add_message_overwriting(st, message) ==
    [state |-> [st EXCEPT !.messages = Messages_add_message(@, message)],
     message |-> message]

\* State::add_message; the result carries the message as mutated in place
RECURSIVE State_add_message(_, _)
State_add_message(st, message) ==
    LET max_id == max_message_id(st.messages)
        maybe_message == get_message(st.messages, message.id)
    IN  IF IsSome(maybe_message) /\ message.id # MockMessageText_ID
        THEN [state |-> st, message |-> message]
        ELSE
        LET m1 == IF message.id <= max_id \/ IsSome(maybe_message)
                  THEN [message EXCEPT !.id = max_id + 1]
                  ELSE message
            file_meta == extract_file_meta(m1)
            st1 == IF IsSome(file_meta)
                   THEN [st EXCEPT !.files =
                            Append(@, File(Unwrap(file_meta), DEFAULT_FILE_PATH))]
                   ELSE st
            r == IF IsSome(m1.reply_to_message)
                 THEN State_add_message(st1, Unwrap(m1.reply_to_message))
                 ELSE [state |-> st1, message |-> m1]
            m2 == IF IsSome(m1.reply_to_message)
                  THEN [m1 EXCEPT !.reply_to_message = Some(r.message)]
                  ELSE m1
        IN  [state |-> [r.state EXCEPT !.messages = Messages_add_message(@, m2)],
             message |-> m2]

\* variant: the File of the edited message takes the place of the old entries
State_edit_message_replacing(st, message) ==
    IF IsNone(get_message(st.messages, message.id))
    THEN st
    ELSE
    LET file_meta == extract_file_meta(message)
        st1 == IF IsSome(file_meta)
               THEN [st EXCEPT !.files = <<File(Unwrap(file_meta), DEFAULT_FILE_PATH)>>]
               ELSE st
    IN  [st1 EXCEPT !.messages = Messages_edit_message(@, message)]

\* State::edit_message
State_edit_message(st, message) ==
    IF IsNone(get_message(st.messages, message.id))
    THEN st
    ELSE
    LET file_meta == extract_file_meta(message)
        st1 == IF IsSome(file_meta)
                  /\ \A i \in 1..Len(st.files) :
                        st.files[i].meta.unique_id # Unwrap(file_meta).unique_id
               THEN [st EXCEPT !.files =
                        Append(@, File(Unwrap(file_meta), DEFAULT_FILE_PATH))]
               ELSE st
    IN  [st1 EXCEPT !.messages = Messages_edit_message(@, message)]

----------------------------------------------------------------------------
(* Request handlers.  A handler maps the State and the request body to the *)
(* new State and the HTTP response.                                        *)

\* make_telegram_result / RouteError: the response envelope
Ok200(message) == [status |-> 200, ok |-> TRUE, description |-> "", message |-> message]
RouteError_bad_request(description) ==
    [status |-> 400, ok |-> FALSE, description |-> description, message |-> None]
\* variant: the API error is reported as an internal error
RouteError_from_api_error_500(error) ==
    [status |-> 500, ok |-> FALSE, description |-> error, message |-> None]

RouteError_from_api_error(error) ==
    [status |-> 400, ok |-> FALSE, description |-> error, message |-> None]

Reply(st, resp) == [state |-> st, resp |-> resp]

\* variant: the keyboard of any reply markup is taken
extract_any_keyboard(markup) ==
    IF IsSome(markup) THEN Some(Unwrap(markup).kb) ELSE None

\* extract_inline_keyboard
extract_inline_keyboard(markup) ==
    IF IsSome(markup) /\ Unwrap(markup).variant = "InlineKeyboard"
    THEN Some(Unwrap(markup).kb)
    ELSE None

\* setup_reply_to_message: [ok, reply_to_message]
setup_reply_to_message(st, reply_parameters) ==
    IF IsSome(reply_parameters)
    THEN LET msg == get_message(st.messages, Unwrap(reply_parameters))
         IN  IF IsSome(msg)
             THEN [ok |-> TRUE, reply_to_message |-> msg]
             ELSE [ok |-> FALSE, reply_to_message |-> None]
    ELSE [ok |-> TRUE, reply_to_message |-> None]

\* variant: the id is taken from the number of stored messages
next_message_id_by_count(messages) == Cardinality(DOMAIN messages) + 1

\* the id a send/forward handler gives to the message it synthesizes
next_message_id(messages) == max_message_id(messages) + 1

\* variant: the message is recorded in the vector of the endpoint only
log_sent_vector_only(responses, vector, message, body) ==
    [responses EXCEPT
        ![vector] = Append(@, [message |-> message, bot_request |-> body])]

\* variant: the message is put in front of sent_messages
log_sent_in_front(responses, vector, message, body) ==
    [responses EXCEPT
        !.sent_messages = <<message>> \o @,
        ![vector] = Append(@, [message |-> message, bot_request |-> body])]

\* the appends of a send handler to the response log
log_sent(responses, vector, message, body) ==
    [responses EXCEPT
        !.sent_messages = Append(@, message),
        ![vector] = Append(@, [message |-> message, bot_request |-> body])]

\* send_message
send_message(st, body) ==
    LET chat == BodyChatId_chat(body.chat_id)
        setup == setup_reply_to_message(st, body.reply_parameters)
    IN  IF ~setup.ok
        THEN Reply(st, RouteError_bad_request("Bad Request: message to reply not found"))
        ELSE
        LET message ==
                [Message(next_message_id(st.messages), chat, Some(Me), None,
                         Some(body.text), None)
                 EXCEPT !.has_protected_content =
                            IF IsSome(body.protect_content)
                            THEN Unwrap(body.protect_content) ELSE FALSE,
                        !.reply_to_message = setup.reply_to_message,
                        !.reply_markup = extract_inline_keyboard(body.reply_markup),
                        !.entities = IF IsSome(body.entities)
                                     THEN Unwrap(body.entities) ELSE <<>>]
            st1 == [st EXCEPT !.messages = Messages_add_message(@, message)]
        IN  Reply([st1 EXCEPT !.responses =
                        log_sent(@, "sent_messages_text", message, body)],
                  Ok200(Some(message)))

\* forward_message: the origin recorded on the forwarded copy
MessageOrigin(type, chat, message_id, sender_chat, sender_user, sender_user_name) ==
    [type |-> type, chat |-> chat, message_id |-> message_id,
     sender_chat |-> sender_chat, sender_user |-> sender_user,
     sender_user_name |-> sender_user_name]

\* variant: the sender chat is looked at before the channel
forward_origin_sender_chat_first(message) ==
    IF IsSome(message.sender_chat)
    THEN MessageOrigin("Chat", None, None, message.sender_chat, None, None)
    ELSE IF is_channel(message.chat)
    THEN MessageOrigin("Channel", Some(message.chat), Some(message.id), None, None, None)
    ELSE IF IsSome(message.from)
    THEN MessageOrigin("User", None, None, None, message.from, None)
    ELSE MessageOrigin("HiddenUser", None, None, None, None, Some("Unknown user"))

forward_origin(message) ==
    IF is_channel(message.chat)
    THEN MessageOrigin("Channel", Some(message.chat), Some(message.id), None, None, None)
    ELSE IF IsSome(message.sender_chat)
    THEN MessageOrigin("Chat", None, None, message.sender_chat, None, None)
    ELSE IF IsSome(message.from)
    THEN MessageOrigin("User", None, None, None, message.from, None)
    ELSE MessageOrigin("HiddenUser", None, None, None, None, Some("Unknown user"))

\* variant: protected content is not looked at
forward_rejected_never(message) == FALSE

\* forward_message: the guard on the source message
forward_rejected(message) == message.has_protected_content

\* variant: the copy stays in the chat of the source
forwarded_copy_in_source_chat(source, body, id) ==
    [source EXCEPT
        !.forward_origin = Some(forward_origin(source)),
        !.has_protected_content =
            IF IsSome(body.protect_content) THEN Unwrap(body.protect_content) ELSE FALSE,
        !.id = id,
        !.from = Some(Me)]

\* forward_message: the message built from the clone of the source
forwarded_copy(source, body, id) ==
    [source EXCEPT
        !.forward_origin = Some(forward_origin(source)),
        !.has_protected_content =
            IF IsSome(body.protect_content) THEN Unwrap(body.protect_content) ELSE FALSE,
        !.id = id,
        !.chat = BodyChatId_chat(body.chat_id),
        !.from = Some(Me)]

\* forward_message
forward_message(st, body) ==
    IF ~message_exists(st.messages, body.message_id)
    THEN Reply(st, RouteError_bad_request("Message not found"))
    ELSE
    LET source == Unwrap(get_message(st.messages, body.message_id))
    IN  IF forward_rejected(source)
        THEN Reply(st, RouteError_bad_request("Message has protected content"))
        ELSE
        LET message == forwarded_copy(source, body, next_message_id(st.messages))
            st1 == [st EXCEPT !.messages = Messages_add_message(@, message)]
        IN  Reply([st1 EXCEPT !.responses =
                        log_sent(@, "forwarded_messages", message, body)],
                  Ok200(Some(message)))

\* variant: the inline edit is recorded like an edit of a stored message
edit_inline_message_logged(st, body) ==
    [state |-> [st EXCEPT !.responses.edited_messages_text =
                    Append(@, [message |-> None, bot_request |-> body])],
     resp |-> Ok200(None)]

\* edit_message_text, the arm for inline_message_id alone: nothing is persisted
edit_inline_message(st, body) == Reply(st, Ok200(None))

\* edit_message_text: the "message is not modified" test
not_modified(old_message, body) ==
    LET old_reply_markup ==
            IF IsSome(old_message.reply_markup)
            THEN Some(InlineKeyboard(Unwrap(old_message.reply_markup)))
            ELSE None
    IN  old_message.text = Some(body.text) /\ old_reply_markup = body.reply_markup

\* variant: an inline_message_id is accepted whatever else is given
edit_message_text_inline_first(st, body) ==
    IF IsSome(body.inline_message_id)
    THEN edit_inline_message(st, body)
    ELSE Reply(st, RouteError_bad_request("No message_id or inline_message_id were provided"))

\* edit_message_text
edit_message_text(st, body) ==
    IF IsSome(body.chat_id) /\ IsSome(body.message_id) /\ IsNone(body.inline_message_id)
    THEN
        LET message_id == Unwrap(body.message_id)
            old_message == get_message(st.messages, message_id)
        IN  IF IsNone(old_message)
            THEN Reply(st, RouteError_from_api_error("MessageToEditNotFound"))
            ELSE IF not_modified(Unwrap(old_message), body)
            THEN Reply(st, RouteError_from_api_error("MessageNotModified"))
            ELSE
            LET ms1 == edit_message_field(st.messages, message_id, "text", body.text)
                ms2 == edit_message_field(ms1, message_id, "entities",
                            IF IsSome(body.entities) THEN Unwrap(body.entities) ELSE <<>>)
                ms3 == edit_message_reply_markup(ms2, message_id, body.reply_markup)
                message == ms3[message_id]
            IN  Reply([st EXCEPT
                          !.messages = ms3,
                          !.responses.edited_messages_text =
                              Append(@, [message |-> message, bot_request |-> body])],
                      Ok200(Some(message)))
    ELSE IF IsNone(body.chat_id) /\ IsNone(body.message_id) /\ IsSome(body.inline_message_id)
    THEN edit_inline_message(st, body)
    ELSE Reply(st, RouteError_bad_request("No message_id or inline_message_id were provided"))

\* variant: the message is logged as deleted and stays in the store
delete_message_keeps(st, body) ==
    IF ~message_exists(st.messages, body.message_id)
    THEN Reply(st, RouteError_bad_request("Message not found"))
    ELSE Reply([st EXCEPT !.responses.deleted_messages =
                    Append(@, [message |-> st.messages[body.message_id],
                               bot_request |-> body])],
               Ok200(None))

\* delete_message
delete_message(st, body) ==
    IF ~message_exists(st.messages, body.message_id)
    THEN Reply(st, RouteError_bad_request("Message not found"))
    ELSE
    LET deleted_message == st.messages[body.message_id]
    IN  Reply([st EXCEPT
                  !.messages = Messages_delete_message(@, body.message_id),
                  !.responses.deleted_messages =
                      Append(@, [message |-> deleted_message, bot_request |-> body])],
              Ok200(None))

\* variant: the sender is not compared, every message of the chat is removed
to_delete_whole_chat(messages, chat_id, user_id) ==
    {i \in DOMAIN messages : messages[i].chat.id = chat_id}

\* ban_chat_member: the ids removed when revoke_messages is set
to_delete(messages, chat_id, user_id) ==
    {i \in DOMAIN messages :
        messages[i].chat.id = chat_id /\ messages[i].from = Some(user_id)}

\* ban_chat_member
ban_chat_member(st, body) ==
    LET chat_id == BodyChatId_id(body.chat_id)
        revoke == IF IsSome(body.revoke_messages)
                  THEN Unwrap(body.revoke_messages) ELSE FALSE
        ids == IF revoke THEN to_delete(st.messages, chat_id, body.user_id) ELSE {}
    IN  Reply([st EXCEPT
                  !.messages = [i \in DOMAIN @ \ ids |-> @[i]],
                  !.responses.banned_chat_members = Append(@, body)],
              Ok200(None))

\* MockMessageSticker::new(): the file of the sticker the builder makes
MockMessageSticker_FILE == FileMeta("sticker_file_id", "sticker_unique_id", 0)

\* the upload endpoints that fill the file of the message from the request;
\* send_sticker builds the message from the builder's sticker as it is
fills_file_from_request(endpoint) == endpoint # "SendSticker"

\* MessageSetup::new: [ok, reply_to_message, has_protected_content, reply_markup]
MessageSetup_new(st, protect_content, reply_parameters, reply_markup) ==
    LET r == setup_reply_to_message(st, reply_parameters)
    IN  [ok |-> r.ok,
         from |-> Some(Me),
         has_protected_content |->
            IF IsSome(protect_content) THEN Unwrap(protect_content) ELSE FALSE,
         reply_to_message |-> r.reply_to_message,
         reply_markup |-> extract_inline_keyboard(reply_markup)]

\* the File an upload handler pushes onto the registry
registered_file(message, body) == File(Unwrap(message.file), body.file_name)

\* common.rs: the defaults of the media of a video
DEFAULT_MEDIA_DIMENSION == 100
DEFAULT_MEDIA_DURATION_SECS == 1

\* Option::unwrap_or
unwrap_or(o, default) == IF IsSome(o) THEN Unwrap(o) ELSE default

\* the numeric fields of a synthesized media; None is a field the kind has not
Media(width, height, length, duration) ==
    [width |-> width, height |-> height, length |-> length, duration |-> duration]

\* variant: every kind of media takes the default duration of a video
media_of_video_defaults(endpoint, body) ==
    CASE endpoint \in {"SendVideo", "SendAnimation"} ->
            Some(Media(Some(unwrap_or(body.width, DEFAULT_MEDIA_DIMENSION)),
                       Some(unwrap_or(body.height, DEFAULT_MEDIA_DIMENSION)),
                       None,
                       Some(unwrap_or(body.duration, DEFAULT_MEDIA_DURATION_SECS))))
      [] endpoint \in {"SendAudio", "SendVoice"} ->
            Some(Media(None, None, None,
                       Some(unwrap_or(body.duration, DEFAULT_MEDIA_DURATION_SECS))))
      [] endpoint = "SendVideoNote" ->
            Some(Media(None, None, Some(unwrap_or(body.length, 100)),
                       Some(unwrap_or(body.duration, DEFAULT_MEDIA_DURATION_SECS))))
      [] OTHER -> None

\* the width, height, length and duration the upload handlers give the media
\* from the request (send_video, send_animation, send_audio, send_video_note;
\* send_voice as the audio)
media_of(endpoint, body) ==
    CASE endpoint = "SendVideo" ->
            Some(Media(Some(unwrap_or(body.width, DEFAULT_MEDIA_DIMENSION)),
                       Some(unwrap_or(body.height, DEFAULT_MEDIA_DIMENSION)),
                       None,
                       Some(unwrap_or(body.duration, DEFAULT_MEDIA_DURATION_SECS))))
      [] endpoint = "SendAnimation" ->
            Some(Media(Some(unwrap_or(body.width, 100)), Some(unwrap_or(body.height, 100)),
                       None, Some(unwrap_or(body.duration, 0))))
      [] endpoint \in {"SendAudio", "SendVoice"} ->
            Some(Media(None, None, None, Some(unwrap_or(body.duration, 0))))
      [] endpoint = "SendVideoNote" ->
            Some(Media(None, None, Some(unwrap_or(body.length, 100)),
                       Some(unwrap_or(body.duration, 0))))
      [] OTHER -> None

\* send_photo, send_video, send_audio, send_video_note, send_animation,
\* send_document, send_sticker: ids is the pair made by generate_file_ids
send_upload(st, body, endpoint, vector, ids) ==
    LET chat == BodyChatId_chat(body.chat_id)
        setup == MessageSetup_new(st, body.protect_content, body.reply_parameters,
                                  body.reply_markup)
    IN  IF ~setup.ok
        THEN Reply(st, RouteError_bad_request("Bad Request: message to reply not found"))
        ELSE
        LET file == IF fills_file_from_request(endpoint)
                    THEN FileMeta(ids[1], ids[2], Len(body.file_data))
                    ELSE MockMessageSticker_FILE
            message ==
                [Message(next_message_id(st.messages), chat, setup.from, None,
                         None, Some(file))
                 EXCEPT !.has_protected_content = setup.has_protected_content,
                        !.reply_to_message = setup.reply_to_message,
                        !.reply_markup = setup.reply_markup,
                        !.media = media_of(endpoint, body)]
            st1 == [st EXCEPT !.messages = Messages_add_message(@, message),
                              !.files = Append(@, registered_file(message, body))]
        IN  Reply([st1 EXCEPT !.responses = log_sent(@, vector, message, body)],
                  Ok200(Some(message)))

\* send_location, send_venue, send_contact, send_poll: the message of the
\* builder with the fields of the MessageSetup
send_plain(st, body, vector) ==
    LET chat == BodyChatId_chat(body.chat_id)
        setup == MessageSetup_new(st, body.protect_content, body.reply_parameters,
                                  body.reply_markup)
    IN  IF ~setup.ok
        THEN Reply(st, RouteError_bad_request("Bad Request: message to reply not found"))
        ELSE
        LET message ==
                [Message(next_message_id(st.messages), chat, setup.from, None, None, None)
                 EXCEPT !.has_protected_content = setup.has_protected_content,
                        !.reply_to_message = setup.reply_to_message,
                        !.reply_markup = setup.reply_markup]
            st1 == [st EXCEPT !.messages = Messages_add_message(@, message)]
        IN  Reply([st1 EXCEPT !.responses = log_sent(@, vector, message, body)],
                  Ok200(Some(message)))

\* MockMessageDice::new(): the sender and the emoji of the message the builder makes
MockMessageDice_FROM == Some("mock_user")
MockMessageDice_EMOJI == "dice"

\* send_dice: value is the random number 1 + random % 5; the reply target is
\* validated and then dropped
send_dice(st, body, value) ==
    LET chat == BodyChatId_chat(body.chat_id)
        reply_to == setup_reply_to_message(st, body.reply_parameters)
    IN  IF ~reply_to.ok
        THEN Reply(st, RouteError_bad_request("Bad Request: message to reply not found"))
        ELSE
        LET message ==
                [Message(next_message_id(st.messages), chat, MockMessageDice_FROM, None,
                         None, None)
                 EXCEPT !.dice = Some([emoji |-> IF IsSome(body.emoji) THEN Unwrap(body.emoji)
                                                 ELSE MockMessageDice_EMOJI,
                                       value |-> value])]
            st1 == [st EXCEPT !.messages = Messages_add_message(@, message)]
        IN  Reply([st1 EXCEPT !.responses = log_sent(@, "sent_messages_dice", message, body)],
                  Ok200(Some(message)))

\* send_chat_action: the request is recorded, no message is made
send_chat_action(st, body) ==
    Reply([st EXCEPT !.responses.sent_chat_actions = Append(@, body)], Ok200(None))

\* pin_chat_message
pin_chat_message(st, body) ==
    IF ~message_exists(st.messages, body.message_id)
    THEN Reply(st, RouteError_bad_request("Message not found"))
    ELSE Reply([st EXCEPT !.responses.pinned_chat_messages = Append(@, body)], Ok200(None))

\* variant: the message is not looked up
unpin_chat_message_unchecked(st, body) ==
    Reply([st EXCEPT !.responses.unpinned_chat_messages = Append(@, body)], Ok200(None))

\* unpin_chat_message: the message is looked up only when message_id is given
unpin_chat_message(st, body) ==
    IF IsSome(body.message_id) /\ ~message_exists(st.messages, Unwrap(body.message_id))
    THEN Reply(st, RouteError_bad_request("Message not found"))
    ELSE Reply([st EXCEPT !.responses.unpinned_chat_messages = Append(@, body)], Ok200(None))

\* set_message_reaction
set_message_reaction(st, body) ==
    IF ~message_exists(st.messages, body.message_id)
    THEN Reply(st, RouteError_bad_request("Message not found"))
    ELSE Reply([st EXCEPT !.responses.set_message_reaction = Append(@, body)], Ok200(None))

\* send_voice
send_voice(st, body, ids) ==
    send_upload(st, body, "SendVoice", "sent_messages_voice", ids)

\* HashMap::get on the scalar fields of a multipart body
get(fields, key) == IF key \in DOMAIN fields THEN Some(fields[key]) ELSE None

\* attachments.keys().last(): the key a HashMap iterates last, any of its keys
keys_last(attachments) ==
    IF DOMAIN attachments = {}
    THEN {None}
    ELSE {Some(key) : key \in DOMAIN attachments}

\* serde_json::from_str of the chat_id field into a BodyChatId
from_str_chat_id(text) ==
    CASE text = "100" -> Some(BodyId(100))
      [] text = "200" -> Some(BodyId(200))
      [] OTHER -> None

FileTypes ==
    {"Photo", "Video", "Audio", "Document", "Sticker", "Voice", "VideoNote", "Animation"}

\* serde_json::from_str(..).ok() of an optional numeric field
from_str_number(field) ==
    IF ~IsSome(field) THEN None
    ELSE CASE Unwrap(field) = "5" -> Some(5)
           [] Unwrap(field) = "640" -> Some(640)
           [] OTHER -> None

\* the FileType each upload handler passes to serialize_raw_fields
FileType_passed(endpoint) ==
    CASE endpoint = "SendPhoto" -> "Photo"
      [] endpoint = "SendVideo" -> "Video"
      [] endpoint = "SendAudio" -> "Audio"
      [] endpoint = "SendDocument" -> "Document"
      [] endpoint = "SendSticker" -> "Sticker"
      [] endpoint = "SendVoice" -> "Voice"
      [] endpoint = "SendVideoNote" -> "Voice"
      [] endpoint = "SendAnimation" -> "Animation"

\* the scalar field serialize_raw_fields reads when there is no attachment
FileType_field(file_type) ==
    CASE file_type = "Photo" -> "photo"
      [] file_type = "Video" -> "video"
      [] file_type = "Audio" -> "audio"
      [] file_type = "Document" -> "document"
      [] file_type = "Sticker" -> "sticker"
      [] file_type = "Voice" -> "voice"
      [] file_type = "VideoNote" -> "video_note"
      [] file_type = "Animation" -> "animation"

\* the file name serialize_raw_fields gives to data taken from a scalar field
FileType_file_name(file_type) ==
    CASE file_type = "Photo" -> "no_name.jpg"
      [] file_type = "Video" -> "no_name.mp4"
      [] file_type = "Audio" -> "no_name.mp3"
      [] file_type = "Document" -> "no_name.txt"
      [] file_type = "Sticker" -> "no_name.png"
      [] file_type = "Voice" -> "no_name.mp3"
      [] file_type = "VideoNote" -> "no_name.mp4"
      [] file_type = "Animation" -> "no_name.gif"

\* SerializeRawFields::serialize_raw_fields of an upload body: Some(body), or
\* None when the file or a required field is missing; attachment is the
\* result of attachments.keys().last()
serialize_raw_fields(fields, attachments, file_type, attachment) ==
    LET file ==
            IF IsSome(attachment)
            THEN Some([file_name |-> attachments[Unwrap(attachment)].file_name,
                       file_data |-> attachments[Unwrap(attachment)].file_data])
            ELSE IF IsSome(get(fields, FileType_field(file_type)))
                 THEN Some([file_name |-> FileType_file_name(file_type),
                            file_data |-> Unwrap(get(fields, FileType_field(file_type)))])
                 ELSE None
        chat_id == IF IsSome(get(fields, "chat_id"))
                   THEN from_str_chat_id(Unwrap(get(fields, "chat_id")))
                   ELSE None
    IN  IF ~IsSome(file) \/ ~IsSome(chat_id)
        THEN None
        ELSE Some([chat_id |-> Unwrap(chat_id),
                   file_name |-> Unwrap(file).file_name,
                   file_data |-> Unwrap(file).file_data,
                   protect_content |-> None,
                   reply_markup |-> None,
                   reply_parameters |-> None,
                   width |-> from_str_number(get(fields, "width")),
                   height |-> from_str_number(get(fields, "height")),
                   length |-> from_str_number(get(fields, "length")),
                   duration |-> from_str_number(get(fields, "duration"))])

\* the success envelope of get_file
OkFile(file) ==
    [status |-> 200, ok |-> TRUE, description |-> "", message |-> None, file |-> file]

\* variant: the last registered file is returned whatever its id
find_file_last(files, file_id) ==
    IF files = <<>> THEN None ELSE Some(files[Len(files)])

\* get_file: the first File of the registry with the id
find_file(files, file_id) ==
    LET found == {i \in 1..Len(files) : files[i].meta.id = file_id}
    IN  IF found = {} THEN None
        ELSE Some(files[CHOOSE i \in found : \A j \in found : i <= j])

\* get_file
get_file(st, query) ==
    LET file == find_file(st.files, query.file_id)
    IN  IF IsNone(file)
        THEN Reply(st, RouteError_bad_request("File not found"))
        ELSE Reply(st, OkFile(Unwrap(file)))

----------------------------------------------------------------------------
(* The dispatch harness (MockBot) *)

\* What a test hands to new() and update(): a sequence of mock builders
MessageItem(m) == [kind |-> "Message", message |-> Some(m), regular |-> TRUE]
EditedMessageItem(m) == [kind |-> "EditedMessage", message |-> Some(m), regular |-> TRUE]
CallbackQueryItem(m, regular) == [kind |-> "CallbackQuery", message |-> m, regular |-> regular]
PollItem == [kind |-> "Poll", message |-> None, regular |-> FALSE]

\* variant: the counter is read once for all the updates of a call
into_update_one_stamp(x, id) ==
    [i \in 1..Len(x) |->
        [id |-> id, kind |-> x[i].kind, message |-> x[i].message,
         regular |-> x[i].regular]]

\* IntoUpdate::into_update: one update per builder, each stamped by fetch_add(1)
into_update(x, id) ==
    [i \in 1..Len(x) |->
        [id |-> id + i - 1, kind |-> x[i].kind, message |-> x[i].message,
         regular |-> x[i].regular]]

\* variant: the message of a callback query is added whatever its kind
insert_update_any_callback(st, update) ==
    IF update.kind = "Message"
    THEN LET r == State_add_message(st, Unwrap(update.message))
         IN  [state |-> r.state, update |-> [update EXCEPT !.message = Some(r.message)]]
    ELSE IF update.kind = "EditedMessage"
    THEN [state |-> State_edit_message(st, Unwrap(update.message)), update |-> update]
    ELSE IF update.kind = "CallbackQuery" /\ IsSome(update.message)
    THEN LET r == State_add_message(st, Unwrap(update.message))
         IN  [state |-> r.state, update |-> [update EXCEPT !.message = Some(r.message)]]
    ELSE [state |-> st, update |-> update]

\* MockBot::insert_updates, one update
insert_update(st, update) ==
    IF update.kind = "Message"
    THEN LET r == State_add_message(st, Unwrap(update.message))
         IN  [state |-> r.state, update |-> [update EXCEPT !.message = Some(r.message)]]
    ELSE IF update.kind = "EditedMessage"
    THEN [state |-> State_edit_message(st, Unwrap(update.message)), update |-> update]
    ELSE IF update.kind = "CallbackQuery" /\ IsSome(update.message) /\ update.regular
    THEN LET r == State_add_message(st, Unwrap(update.message))
         IN  [state |-> r.state, update |-> [update EXCEPT !.message = Some(r.message)]]
    ELSE [state |-> st, update |-> update]

\* variant: the updates are handed over without being inserted
insert_updates_skipped(st, ups) == [state |-> st, updates |-> ups]

\* MockBot::insert_updates: [state, updates], the updates as mutated in place
RECURSIVE insert_updates(_, _)
insert_updates(st, ups) ==
    IF ups = <<>>
    THEN [state |-> st, updates |-> <<>>]
    ELSE LET r == insert_update(st, Head(ups))
             rest == insert_updates(r.state, Tail(ups))
         IN  [state |-> rest.state, updates |-> <<r.update>> \o rest.updates]

\* MockBot::get_responses
get_responses == state.responses

\* variant: the result of the join is dropped
expect_join_ignored(result) == "idle"

\* handle.await.expect("Dispatch task panicked!"): where dispatch() goes on
\* the result of the join
expect_join(result) == IF result = "panicked" THEN "panicked" ELSE "idle"

\* variant: the stream takes the update at the back
pop_back(q) == [item |-> q[Len(q)], rest |-> SubSeq(q, 1, Len(q) - 1)]

\* VecDeque::pop_front in SingleUpdateStream::poll_next, on a stream that is not empty
pop_front(q) == [item |-> Head(q), rest |-> Tail(q)]

\* the port of the API URL a client has when it is not rerouted
DEFAULT_API_PORT == 443

\* variant: the client keeps its API URL
set_api_url_ignored(url) == DEFAULT_API_PORT

\* Bot::set_api_url in dispatch(): the client is rerouted to MockBot.api_url
set_api_url(url) == url

\* Mutex::new
Mutex_new == [holders |-> {}, poisoned |-> FALSE]

\* variant: the lock is handed out whoever holds it
lock_free_always(m) == TRUE

\* Mutex::lock returns at once only when nobody holds the lock
lock_free(m) == m.holders = {}

\* RouteError::internal_error
RouteError_internal_error(description) ==
    [status |-> 500, ok |-> FALSE, description |-> description, message |-> None]

\* variant: the guard of a poisoned lock is taken out of the error and used
lock_state_into_inner(m) == None

\* lock_state: the error the handler returns with, if the lock is poisoned
lock_state(m) ==
    IF m.poisoned
    THEN Some(RouteError_internal_error("Internal server error: state lock poisoned"))
    ELSE None

\* the handler of the endpoint calls lock_state for this request
locks_state(op, body) ==
    op = "EditMessageText" =>
        IsSome(body.chat_id) /\ IsSome(body.message_id) /\ IsNone(body.inline_message_id)

\* the connections the single worker serves at a time
Connections == 1..2

NoRequests == [c \in Connections |-> None]

\* ServerManager::start has returned Ok: one server task was spawned for the
\* port, it has signalled readiness and serves, its watcher waits
Serving(port) ==
    [spawned |-> 1, port |-> port, task |-> "serving", watcher |-> "waiting",
     ready |-> TRUE, cancelled |-> FALSE, stop |-> None,
     handle |-> Some("run_server"), stops |-> <<>>]

\* the ephemeral ports the listener may be bound to
Ports == {50001, 50002}

\* no ServerManager yet
NoServer ==
    [spawned |-> 0, port |-> 0, task |-> "none", watcher |-> "none",
     ready |-> FALSE, cancelled |-> FALSE, stop |-> None, handle |-> None, stops |-> <<>>]

\* ServerManager::start up to the await: the listener is bound and run_server spawned
Spawned(port) ==
    [spawned |-> 1, port |-> port, task |-> "spawned", watcher |-> "none",
     ready |-> FALSE, cancelled |-> FALSE, stop |-> None,
     handle |-> Some("run_server"), stops |-> <<>>]

\* rx.recv().await in ServerManager::start is over: a readiness signal was
\* sent, or run_server has returned and dropped the sender
recv_returns(srv) == srv.ready \/ srv.task = "failed"

\* the server accepts requests
Served == server.task \in {"signalled", "serving"}

----------------------------------------------------------------------------
(* Inputs *)

User1 == "user1"
Group == Chat(100, "group")
Channel == Chat(200, "channel")
SenderChat == Chat(300, "supergroup")

Doc1 == FileMeta("file1", "unique1", 5)

\* messages a test builds: every combination of channel / sender chat / sender
OriginSources ==
    {Message(MockMessageText_ID, chat, from, sender_chat, Some("a"), None) :
        chat \in {Group, Channel},
        from \in {None, Some(User1)},
        sender_chat \in {None, Some(SenderChat)}}

PlainMessage == Message(MockMessageText_ID, Group, Some(User1), None, Some("a"), None)
ProtectedMessage == [PlainMessage EXCEPT !.has_protected_content = TRUE]
DocumentMessage == Message(MockMessageText_ID, Group, Some(User1), None, None, Some(Doc1))

\* what the tests hand to new() and update()
MockInputs ==
    {<<MessageItem(DocumentMessage)>>,
     <<MessageItem(ProtectedMessage)>>,
     <<PollItem>>}

\* sources for forwarding: one message per combination of the attributes
OriginInputs ==
    {<<MessageItem(m)>> : m \in OriginSources} \cup {<<MessageItem(ProtectedMessage)>>}

Inline1 == InlineKeyboard("kb1")
Keyboard1 == Keyboard("kb2")

SendMessageTextBody(chat_id, text, protect_content, reply_markup, reply_parameters) ==
    [chat_id |-> chat_id, text |-> text, protect_content |-> protect_content,
     reply_markup |-> reply_markup, reply_parameters |-> reply_parameters,
     entities |-> None]

SendBodies ==
    {SendMessageTextBody(BodyId(100), "a", None, None, None),
     SendMessageTextBody(BodyId(100), "b", Some(TRUE), Some(Inline1), Some(1))}

ForwardMessageBody(chat_id, message_id, protect_content) ==
    [chat_id |-> chat_id, from_chat_id |-> BodyId(100), message_id |-> message_id,
     protect_content |-> protect_content]

ForwardBodies ==
    {ForwardMessageBody(BodyId(400), 1, None),
     ForwardMessageBody(BodyText, 2, Some(TRUE))}

EditMessageTextBody(chat_id, message_id, inline_message_id, text, reply_markup) ==
    [chat_id |-> chat_id, message_id |-> message_id,
     inline_message_id |-> inline_message_id, text |-> text,
     entities |-> None, reply_markup |-> reply_markup]

EditBodies ==
    {EditMessageTextBody(Some(BodyId(100)), Some(1), None, "a", None),
     EditMessageTextBody(Some(BodyId(100)), Some(1), None, "a", Some(Inline1)),
     EditMessageTextBody(Some(BodyId(100)), Some(1), None, "b", None),
     EditMessageTextBody(Some(BodyId(100)), Some(1), None, "b", Some(Inline1)),
     EditMessageTextBody(Some(BodyId(100)), Some(1), None, "b", Some(Keyboard1)),
     EditMessageTextBody(Some(BodyId(100)), Some(2), None, "b", None),
     EditMessageTextBody(None, None, Some("inline1"), "b", None)}

DeleteMessageBody(chat_id, message_id) == [chat_id |-> chat_id, message_id |-> message_id]

DeleteBodies == {DeleteMessageBody(BodyId(100), id) : id \in 1..2}

BanChatMemberBody(chat_id, user_id, revoke_messages) ==
    [chat_id |-> chat_id, user_id |-> user_id, revoke_messages |-> revoke_messages]

BanBodies ==
    {BanChatMemberBody(BodyId(100), User1, Some(TRUE)),
     BanChatMemberBody(BodyId(100), Me, None)}

\* messages of two chats, with and without a sender
BanSources ==
    {Message(MockMessageText_ID, chat, from, None, Some("a"), None) :
        chat \in {Group, Channel}, from \in {None, Some(User1)}}

BanInputs == {<<MessageItem(m)>> : m \in BanSources}

\* bans with revoke_messages true, false and omitted
RevokeBodies ==
    {BanChatMemberBody(BodyId(100), User1, revoke) : revoke \in {None, Some(TRUE), Some(FALSE)}}
        \cup {BanChatMemberBody(BodyId(100), Me, Some(TRUE))}

\* the bodies of the upload endpoints: a file name and the bytes of the file
SendUploadBody(chat_id, file_name, file_data) ==
    [chat_id |-> chat_id, file_name |-> file_name, file_data |-> file_data,
     protect_content |-> None, reply_markup |-> None, reply_parameters |-> None,
     width |-> None, height |-> None, length |-> None, duration |-> None]

UploadBodies ==
    {SendUploadBody(BodyId(100), "a.txt", "12345"),
     SendUploadBody(BodyId(100), "b.png", "1234567")}

\* generate_file_ids: the random (file id, file unique id) pairs
GeneratedFileIds == {<<"gen1", "ugen1">>, <<"gen2", "ugen2">>}

GetFileQuery(file_id) == [file_id |-> file_id]

GetFileQueries == {GetFileQuery(id) : id \in {"gen1", "file1", "nofile"}}

\* an edit of the document message that carries another file
Doc2 == FileMeta("file2", "unique2", 9)
EditedDocument == [DocumentMessage EXCEPT !.file = Some(Doc2)]

RegistryInputs == {<<MessageItem(DocumentMessage)>>, <<EditedMessageItem(EditedDocument)>>}

\* one request per kind of operation of the server
RegistryRequests ==
    {[op |-> "SendDocument", body |-> SendUploadBody(BodyId(100), "a.txt", "12345")],
     [op |-> "SendMessage", body |-> SendMessageTextBody(BodyId(100), "a", None, None, None)],
     [op |-> "ForwardMessage", body |-> ForwardMessageBody(BodyId(400), 1, None)],
     [op |-> "EditMessageText",
      body |-> EditMessageTextBody(Some(BodyId(100)), Some(1), None, "b", None)],
     [op |-> "DeleteMessage", body |-> DeleteMessageBody(BodyId(100), 1)],
     [op |-> "BanChatMember", body |-> BanChatMemberBody(BodyId(100), User1, Some(TRUE))],
     [op |-> "GetFile", body |-> GetFileQuery("file1")]}

SendMessageDiceBody(chat_id, emoji, reply_parameters) ==
    [chat_id |-> chat_id, emoji |-> emoji, protect_content |-> None,
     reply_markup |-> None, reply_parameters |-> reply_parameters]

DiceBodies == {SendMessageDiceBody(BodyId(100), None, Some(1))}

\* 1 + rand::random::<u8>() % 5
DiceValues == 1..5

ReplyInputs == {<<MessageItem(PlainMessage)>>, <<PollItem>>}

SendChatActionBody(chat_id, action) == [chat_id |-> chat_id, action |-> action]

PinChatMessageBody(chat_id, message_id) == [chat_id |-> chat_id, message_id |-> message_id]

\* requests of the endpoints that make a message and of those that do not
LogRequests ==
    {[op |-> "SendMessage",
      body |-> SendMessageTextBody(BodyId(100), "a", None, Some(Inline1), None)],
     [op |-> "SendMessage",
      body |-> SendMessageTextBody(BodyId(100), "b", None, Some(Keyboard1), Some(1))],
     [op |-> "ForwardMessage", body |-> ForwardMessageBody(BodyId(400), 1, None)],
     [op |-> "SendDocument", body |-> SendUploadBody(BodyId(100), "a.txt", "12345")],
     [op |-> "SendChatAction", body |-> SendChatActionBody(BodyId(100), "typing")],
     [op |-> "PinChatMessage", body |-> PinChatMessageBody(BodyId(100), 1)],
     [op |-> "EditMessageText",
      body |-> EditMessageTextBody(Some(BodyId(100)), Some(1), None, "b", Some(Keyboard1))],
     [op |-> "DeleteMessage", body |-> DeleteMessageBody(BodyId(100), 1)],
     [op |-> "BanChatMember", body |-> BanChatMemberBody(BodyId(100), User1, Some(TRUE))]}

LogInputs == {<<MessageItem(PlainMessage)>>}

\* the random values a handler draws: file ids and the value of a dice
Randoms == [ids : GeneratedFileIds, value : DiceValues]
NoRandom == [ids |-> <<"gen1", "ugen1">>, value |-> 1]

\* updates of every kind: messages with the default id and with an id of
\* their own, edits of a stored and of an unknown message, callback queries
\* with a regular, an inaccessible and no message, and a poll
OwnIdMessage == Message(2, Group, Some(User1), None, Some("c"), None)
EditedPlain == [PlainMessage EXCEPT !.text = Some("e")]
EditedUnknown == Message(7, Group, Some(User1), None, Some("e"), None)
CallbackMessage == Message(MockMessageText_ID, Group, Some(Me), None, Some("menu"), None)

UpdateInputs ==
    {<<MessageItem(PlainMessage)>>,
     <<MessageItem(OwnIdMessage)>>,
     <<EditedMessageItem(EditedPlain)>>,
     <<EditedMessageItem(EditedUnknown)>>,
     <<CallbackQueryItem(Some(CallbackMessage), TRUE)>>,
     <<CallbackQueryItem(Some(CallbackMessage), FALSE)>>,
     <<CallbackQueryItem(None, FALSE)>>,
     <<PollItem>>}

\* one or two builders at a time, among them the poll update
StampedInputs ==
    {<<PollItem>>,
     <<MessageItem(PlainMessage), PollItem>>,
     <<PollItem, MessageItem(PlainMessage)>>}

\* pending updates: none, one, two and three at a time
StreamInputs ==
    {<<>>,
     <<PollItem>>,
     <<MessageItem(PlainMessage), PollItem>>,
     <<MessageItem(OwnIdMessage), PollItem, MessageItem(PlainMessage)>>}

\* requests of handlers that lock at entry, after reading a multipart body,
\* in one branch only, and a request no branch serves
LockRequests ==
    {[op |-> "SendMessage", body |-> SendMessageTextBody(BodyId(100), "a", None, None, None)],
     [op |-> "SendDocument", body |-> SendUploadBody(BodyId(100), "a.txt", "12345")],
     [op |-> "EditMessageText",
      body |-> EditMessageTextBody(Some(BodyId(100)), Some(1), None, "b", None)],
     [op |-> "EditMessageText",
      body |-> EditMessageTextBody(None, None, Some("inline1"), "b", None)],
     [op |-> "EditMessageText",
      body |-> EditMessageTextBody(None, None, None, "b", None)],
     [op |-> "DeleteMessage", body |-> DeleteMessageBody(BodyId(100), 1)]}

\* POSTs to registered names and to names no route is registered for: an
\* endpoint the server lacks, a registered name in another case, any word
PostRequests ==
    {[op |-> "SendMessage", body |-> SendMessageTextBody(BodyId(100), "a", None, None, None)],
     [op |-> "sendMessage", body |-> SendMessageTextBody(BodyId(100), "a", None, None, None)],
     [op |-> "DeleteMessage", body |-> DeleteMessageBody(BodyId(100), 1)],
     [op |-> "SendGame", body |-> SendMessageTextBody(BodyId(100), "g", None, None, None)],
     [op |-> "SendDocument", body |-> SendUploadBody(BodyId(100), "a.txt", "12345")],
     [op |-> "Foo", body |-> DeleteMessageBody(BodyId(100), 1)]}

----------------------------------------------------------------------------
(* The state machine *)

NoCall == [op |-> "none", body |-> <<>>, resp |-> Ok200(None), issued_before |-> 0]

\* the endpoints of the model and the vector of the response log each appends to
UploadEndpoints ==
    {"SendPhoto", "SendVideo", "SendAudio", "SendVoice", "SendVideoNote",
     "SendAnimation", "SendDocument", "SendSticker"}

\* send_location, send_venue, send_contact, send_poll
PlainEndpoints == {"SendLocation", "SendVenue", "SendContact", "SendPoll"}

Endpoints ==
    {"SendMessage", "ForwardMessage", "EditMessageText", "DeleteMessage", "BanChatMember",
     "SendDice", "SendChatAction", "PinChatMessage", "UnpinChatMessage",
     "SetMessageReaction"} \cup UploadEndpoints \cup PlainEndpoints

VectorOf(op) ==
    CASE op = "SendMessage" -> "sent_messages_text"
      [] op = "ForwardMessage" -> "forwarded_messages"
      [] op = "EditMessageText" -> "edited_messages_text"
      [] op = "DeleteMessage" -> "deleted_messages"
      [] op = "BanChatMember" -> "banned_chat_members"
      [] op = "SendPhoto" -> "sent_messages_photo"
      [] op = "SendVideo" -> "sent_messages_video"
      [] op = "SendAudio" -> "sent_messages_audio"
      [] op = "SendVoice" -> "sent_messages_voice"
      [] op = "SendVideoNote" -> "sent_messages_video_note"
      [] op = "SendAnimation" -> "sent_messages_animation"
      [] op = "SendDocument" -> "sent_messages_document"
      [] op = "SendSticker" -> "sent_messages_sticker"
      [] op = "SendDice" -> "sent_messages_dice"
      [] op = "SendLocation" -> "sent_messages_location"
      [] op = "SendVenue" -> "sent_messages_venue"
      [] op = "SendContact" -> "sent_messages_contact"
      [] op = "SendPoll" -> "sent_messages_poll"
      [] op = "SendChatAction" -> "sent_chat_actions"
      [] op = "PinChatMessage" -> "pinned_chat_messages"
      [] op = "UnpinChatMessage" -> "unpinned_chat_messages"
      [] op = "SetMessageReaction" -> "set_message_reaction"

\* the endpoints that answer with a synthesized message
MessageEndpoints ==
    {"SendMessage", "ForwardMessage", "SendDice"} \cup UploadEndpoints \cup PlainEndpoints

\* the bot got a synthesized message back from a send or forward call
Synthesizes(op, resp) == op \in MessageEndpoints /\ resp.ok

\* the bot got a success envelope for a call that is recorded in the log
\* (an edit addressed by inline_message_id is answered with true and not recorded)
Logs(op, resp) ==
    op \in Endpoints /\ resp.ok /\ (op = "EditMessageText" => IsSome(resp.message))

NoneMade == [sent |-> <<>>, logged |-> [op \in Endpoints |-> 0]]

\* MockBot::new: the server is started on a default State, the update is
\* materialized from the counter starting at 42
InitFrom(inputs) ==
    \E x \in inputs :
        /\ state = State_default
        /\ updates = into_update(x, 42)
        /\ current_update_id = 42 + Len(x)
        /\ pc = "idle"
        /\ stream = <<>>
        /\ handling = None
        /\ last = NoCall
        /\ made = NoneMade
        /\ issued_max = 0
        /\ ncalls = 0
        /\ ndispatch = 0
        /\ nupdate = 0
        /\ issued = [i \in 1..Len(x) |-> into_update(x, 42)[i].id]
        /\ yielded = <<>>
        /\ server = Serving(50001)
        /\ api_url = Some(50001)
        /\ bot_api_url = None
        /\ mutex = Mutex_new
        /\ inflight = NoRequests
        /\ handed = None

Init == InitFrom(MockInputs)

\* MockBot::update, called at most n times
UpdateUpTo(inputs, n) ==
    /\ pc = "idle"
    /\ nupdate < n
    /\ \E x \in inputs :
        /\ updates' = into_update(x, current_update_id)
        /\ current_update_id' = current_update_id + Len(x)
        /\ issued' = issued \o [i \in 1..Len(x) |-> into_update(x, current_update_id)[i].id]
    /\ nupdate' = nupdate + 1
    /\ handed' = None
    /\ UNCHANGED <<state, pc, stream, handling, last, made, issued_max, ncalls, ndispatch>>
    /\ UNCHANGED <<yielded, bot_api_url, lifecycle>>

\* MockBot::update
UpdateFrom(inputs) == UpdateUpTo(inputs, MaxDispatches - 1)

\* MockBot::dispatch, first lock: the response log is reset
DispatchReset ==
    /\ pc = "idle"
    /\ ndispatch < MaxDispatches
    /\ lock_free(mutex)
    /\ ~mutex.poisoned
    /\ state' = reset(state)
    /\ pc' = "reset_done"
    /\ ndispatch' = ndispatch + 1
    /\ last' = NoCall
    /\ made' = NoneMade
    /\ UNCHANGED <<updates, current_update_id, stream, handling, issued_max, ncalls, nupdate>>
    /\ UNCHANGED <<issued, handed, yielded, bot_api_url, lifecycle>>

\* variant: the pending updates are taken, not cloned
DispatchInsertUpdates_taking ==
    /\ pc = "reset_done"
    /\ lock_free(mutex)
    /\ ~mutex.poisoned
    /\ LET r == insert_updates(state, updates)
       IN  /\ state' = r.state
           /\ stream' = r.updates
           /\ handed' = Some(r.updates)
    /\ bot_api_url' = Some(set_api_url(Unwrap(api_url)))
    /\ yielded' = <<>>
    /\ pc' = "running"
    /\ updates' = <<>>
    /\ UNCHANGED <<current_update_id, handling, last, made, issued_max, ncalls, ndispatch, nupdate>>
    /\ UNCHANGED <<issued, lifecycle>>

\* MockBot::dispatch, second lock: a clone of the updates is inserted and
\* handed to the dispatcher task
DispatchInsertUpdates ==
    /\ pc = "reset_done"
    /\ lock_free(mutex)
    /\ ~mutex.poisoned
    /\ LET r == insert_updates(state, updates)
       IN  /\ state' = r.state
           /\ stream' = r.updates
           /\ handed' = Some(r.updates)
    /\ bot_api_url' = Some(set_api_url(Unwrap(api_url)))
    /\ yielded' = <<>>
    /\ pc' = "running"
    /\ UNCHANGED <<updates, current_update_id, handling, last, made, issued_max, ncalls, ndispatch, nupdate>>
    /\ UNCHANGED <<issued, lifecycle>>

\* SingleUpdateStream::poll_next yields the front update to the handler tree
StreamNext ==
    /\ pc = "running"
    /\ IsNone(handling)
    /\ stream # <<>>
    /\ handling' = Some(pop_front(stream).item)
    /\ stream' = pop_front(stream).rest
    /\ yielded' = Append(yielded, pop_front(stream).item)
    /\ UNCHANGED <<state, updates, current_update_id, pc, last, made, issued_max, ncalls, ndispatch, nupdate>>
    /\ UNCHANGED <<issued, handed, bot_api_url, lifecycle>>

\* the handler invocation for the update returns
HandlerReturn ==
    /\ pc = "running"
    /\ IsSome(handling)
    /\ handling' = None
    /\ UNCHANGED <<state, updates, current_update_id, pc, stream, last, made, issued_max, ncalls, ndispatch, nupdate>>
    /\ UNCHANGED <<issued, handed, yielded, bot_api_url, lifecycle>>

\* the stream has ended and the dispatcher task is joined
DispatchReturn ==
    /\ pc = "running"
    /\ IsNone(handling)
    /\ stream = <<>>
    /\ pc' = expect_join("finished")
    /\ yielded' = <<>>
    /\ UNCHANGED <<state, updates, current_update_id, stream, handling, last, made, issued_max, ncalls, ndispatch, nupdate>>
    /\ UNCHANGED <<issued, handed, bot_api_url, lifecycle>>

\* An API call of the handler, served by the handler of the endpoint op
Call(op, body, r) ==
    /\ pc = "running"
    /\ IsSome(handling)
    /\ ncalls < MaxCalls
    /\ state' = r.state
    /\ last' = [op |-> op, body |-> body, resp |-> r.resp, issued_before |-> issued_max]
    /\ made' = [sent |-> IF Synthesizes(op, r.resp)
                         THEN Append(made.sent, Unwrap(r.resp.message).id)
                         ELSE made.sent,
                logged |-> IF Logs(op, r.resp)
                           THEN [made.logged EXCEPT ![op] = @ + 1]
                           ELSE made.logged]
    /\ issued_max' = IF Synthesizes(op, r.resp) /\ Unwrap(r.resp.message).id > issued_max
                     THEN Unwrap(r.resp.message).id
                     ELSE issued_max
    /\ ncalls' = ncalls + 1
    /\ UNCHANGED <<updates, current_update_id, pc, stream, handling, ndispatch, nupdate>>
    /\ UNCHANGED <<issued, handed, yielded, bot_api_url, lifecycle>>

SendMessage == \E body \in SendBodies : Call("SendMessage", body, send_message(state, body))

ForwardMessage ==
    \E body \in ForwardBodies : Call("ForwardMessage", body, forward_message(state, body))

EditMessageText ==
    \E body \in EditBodies : Call("EditMessageText", body, edit_message_text(state, body))

DeleteMessage ==
    \E body \in DeleteBodies : Call("DeleteMessage", body, delete_message(state, body))

BanChatMember ==
    \E body \in BanBodies : Call("BanChatMember", body, ban_chat_member(state, body))

Update == UpdateFrom(MockInputs)

Harness ==
    \/ DispatchReset
    \/ DispatchInsertUpdates
    \/ StreamNext
    \/ HandlerReturn
    \/ DispatchReturn

\* the harness and the endpoints that create and remove messages
Next ==
    \/ Update
    \/ Harness
    \/ SendMessage
    \/ ForwardMessage
    \/ DeleteMessage
    \/ BanChatMember

Spec == Init /\ [][Next]_vars

\* the harness and the endpoints that create and edit messages
NextEdit ==
    \/ Update
    \/ Harness
    \/ SendMessage
    \/ EditMessageText

SpecEdit == Init /\ [][NextEdit]_vars

\* forwarding of messages of every provenance
InitOrigin == InitFrom(OriginInputs)

UpdateOrigin == UpdateFrom(OriginInputs)

NextOrigin ==
    \/ UpdateOrigin
    \/ Harness
    \/ ForwardMessage

SpecOrigin == InitOrigin /\ [][NextOrigin]_vars

\* banning members of a chat that holds messages of several senders
InitBan == InitFrom(BanInputs)

UpdateBan == UpdateFrom(BanInputs)

BanChatMemberRevoke ==
    \E body \in RevokeBodies : Call("BanChatMember", body, ban_chat_member(state, body))

NextBan ==
    \/ UpdateBan
    \/ Harness
    \/ SendMessage
    \/ BanChatMemberRevoke

SpecBan == InitBan /\ [][NextBan]_vars

\* uploads and file lookups
SendUpload ==
    \E endpoint \in UploadEndpoints, body \in UploadBodies, ids \in GeneratedFileIds :
        /\ Len(state.files) <= MaxUploads
        /\ Call(endpoint, body,
                IF endpoint = "SendVoice"
                THEN send_voice(state, body, ids)
                ELSE send_upload(state, body, endpoint, VectorOf(endpoint), ids))

GetFile ==
    \E query \in GetFileQueries : Call("GetFile", query, get_file(state, query))

NextUpload ==
    \/ Harness
    \/ SendUpload
    \/ GetFile

\* the test starts from a message that carries a document
UploadInputs == {<<MessageItem(DocumentMessage)>>}

InitUpload == InitFrom(UploadInputs)

SpecUpload == InitUpload /\ [][NextUpload]_vars

\* set_bot_routes: the handler a request is routed to
route(op, st, body, rnd) ==
    CASE op = "SendMessage" -> send_message(st, body)
      [] op = "ForwardMessage" -> forward_message(st, body)
      [] op = "EditMessageText" -> edit_message_text(st, body)
      [] op = "DeleteMessage" -> delete_message(st, body)
      [] op = "BanChatMember" -> ban_chat_member(st, body)
      [] op = "GetFile" -> get_file(st, body)
      [] op = "SendVoice" -> send_voice(st, body, rnd.ids)
      [] op = "SendDice" -> send_dice(st, body, rnd.value)
      [] op = "SendChatAction" -> send_chat_action(st, body)
      [] op = "PinChatMessage" -> pin_chat_message(st, body)
      [] op = "UnpinChatMessage" -> unpin_chat_message(st, body)
      [] op = "SetMessageReaction" -> set_message_reaction(st, body)
      [] op \in PlainEndpoints -> send_plain(st, body, VectorOf(op))
      [] op \in UploadEndpoints \ {"SendVoice"} ->
            send_upload(st, body, op, VectorOf(op), rnd.ids)

\* set_bot_routes: the names a POST route is registered for
RegisteredRoutes ==
    {"GetFile", "SendMessage", "GetWebhookInfo", "GetMe", "GetUpdates", "SendPhoto",
     "SendVideo", "SendVoice", "SendAudio", "SendVideoNote", "SendDocument",
     "SendAnimation", "SendLocation", "SendVenue", "SendContact", "SendSticker",
     "SendChatAction", "SendDice", "SendPoll", "SendMediaGroup", "SendInvoice",
     "EditMessageText", "EditMessageCaption", "EditMessageReplyMarkup", "DeleteMessage",
     "DeleteMessages", "ForwardMessage", "CopyMessage", "AnswerCallbackQuery",
     "PinChatMessage", "UnpinChatMessage", "UnpinAllChatMessages", "BanChatMember",
     "UnbanChatMember", "RestrictChatMember", "SetMessageReaction", "SetMyCommands"}

\* the issue tracker the message of unknown_endpoint points to
ISSUES_URL == "https://github.com/LasterAlex/teloxide_tests/issues/new"

\* variant: an unknown endpoint is answered as not found
unknown_endpoint_not_found(name) ==
    [status |-> 404, ok |-> FALSE, description |-> "", message |-> None,
     endpoint |-> "", issues |-> ""]

\* unknown_endpoint: InternalServerError with a body that names the endpoint
\* and the issue tracker
unknown_endpoint(name) ==
    [status |-> 500, ok |-> FALSE,
     description |-> "Endpoint is not yet implemented! Please make an issue",
     message |-> None, endpoint |-> name, issues |-> ISSUES_URL]

\* set_bot_routes: POST /bot{token}/{name}
post(name, st, body, rnd) ==
    IF name \in RegisteredRoutes
    THEN route(name, st, body, rnd)
    ELSE Reply(st, unknown_endpoint(name))

\* every kind of operation on a State that holds files
InitRegistry == InitFrom(RegistryInputs)

UpdateRegistry == UpdateFrom(RegistryInputs)

\* the random values the handler of the endpoint draws
Draws(op, rnd) ==
    /\ op \notin UploadEndpoints => rnd.ids = NoRandom.ids
    /\ op # "SendDice" => rnd.value = NoRandom.value

RequestFrom(requests) ==
    \E r \in requests, rnd \in Randoms :
        /\ r.op \in UploadEndpoints => Len(state.files) <= MaxUploads
        /\ Draws(r.op, rnd)
        /\ Call(r.op, r.body, route(r.op, state, r.body, rnd))

Request == RequestFrom(RegistryRequests)

NextRegistry ==
    \/ UpdateRegistry
    \/ Harness
    \/ Request

SpecRegistry == InitRegistry /\ [][NextRegistry]_vars

\* sends that reply to a stored message, and deletes of the reply target
InitReply == InitFrom(ReplyInputs)

UpdateReply == UpdateFrom(ReplyInputs)

SendDice ==
    \E body \in DiceBodies, value \in DiceValues :
        Call("SendDice", body, send_dice(state, body, value))

NextReply ==
    \/ UpdateReply
    \/ Harness
    \/ SendMessage
    \/ SendDice
    \/ DeleteMessage

SpecReply == InitReply /\ [][NextReply]_vars

\* the response log under requests of every kind
InitLog == InitFrom(LogInputs)

RequestLog == RequestFrom(LogRequests)

NextLog ==
    \/ Harness
    \/ RequestLog

SpecLog == InitLog /\ [][NextLog]_vars

\* dispatches of updates of every kind, the bot answering with text messages
InitUpdates == InitFrom(UpdateInputs)

UpdateUpdates == UpdateFrom(UpdateInputs)

NextUpdates ==
    \/ UpdateUpdates
    \/ Harness
    \/ SendMessage

SpecUpdates == InitUpdates /\ [][NextUpdates]_vars

\* new() and several update(x) calls, with one or two updates each
InitStamped == InitFrom(StampedInputs)

UpdateStamped == UpdateUpTo(StampedInputs, MaxUpdates)

NextStamped ==
    \/ UpdateStamped
    \/ Harness
    \/ SendMessage

SpecStamped == InitStamped /\ [][NextStamped]_vars

\* dispatches of several pending updates
InitStream == InitFrom(StreamInputs)

UpdateStream == UpdateFrom(StreamInputs)

NextStream ==
    \/ UpdateStream
    \/ Harness
    \/ SendMessage

SpecStream == InitStream /\ [][NextStream]_vars

\* a step of the spawned dispatcher task, up to its end
DispatcherTask ==
    \/ StreamNext
    \/ HandlerReturn
    \/ DispatchReturn

\* the dispatcher task is scheduled and every handler invocation terminates
SpecStreamFair == SpecStream /\ WF_vars(DispatcherTask)

\* POSTs to registered and to unknown endpoints
InitPost == InitFrom(RegistryInputs)

Post ==
    \E r \in PostRequests :
        Call(r.op, r.body, post(r.op, state, r.body, NoRandom))

NextPost ==
    \/ Harness
    \/ Post

SpecPost == InitPost /\ [][NextPost]_vars

\* an upload handler from its multipart body on: the parse of the fields,
\* then the handler on the parsed body
send_multipart(st, request, endpoint, attachment, ids) ==
    LET body == serialize_raw_fields(request.fields, request.attachments,
                                     FileType_passed(endpoint), attachment)
    IN  IF ~IsSome(body)
        THEN Reply(st, RouteError_bad_request("Failed to parse request body"))
        ELSE IF endpoint = "SendVoice"
             THEN send_voice(st, Unwrap(body), ids)
             ELSE send_upload(st, Unwrap(body), endpoint, VectorOf(endpoint), ids)

\* multipart bodies: the scalar fields and the attachments by part name
MultipartBody(fields, attachments) == [fields |-> fields, attachments |-> attachments]

NoAttachments == [name \in {} |-> <<>>]

Attachment(file_name, file_data) == [file_name |-> file_name, file_data |-> file_data]

\* an attached file; the data in the scalar field of a media kind; no file at
\* all; a chat_id that is no chat id
MultipartBodies ==
    {MultipartBody([chat_id |-> "100"], [file |-> Attachment("a.txt", "12345")]),
     MultipartBody([chat_id |-> "100"], NoAttachments),
     MultipartBody([chat_id |-> "abc"], [file |-> Attachment("a.txt", "12345")])}
        \cup {MultipartBody(("chat_id" :> "100") @@ (FileType_field(file_type) :> "1234567"),
                            NoAttachments) : file_type \in FileTypes}

InitMultipart == InitFrom(UploadInputs)

SendMultipart ==
    \E endpoint \in UploadEndpoints, request \in MultipartBodies :
        \E attachment \in keys_last(request.attachments) :
            /\ Len(state.files) <= MaxUploads
            /\ Call(endpoint, request,
                    send_multipart(state, request, endpoint, attachment, <<"gen1", "ugen1">>))

NextMultipart ==
    \/ Harness
    \/ SendMultipart

SpecMultipart == InitMultipart /\ [][NextMultipart]_vars

\* sends of every kind, with and without a reply target
SendPlainBody(chat_id, reply_parameters) ==
    [chat_id |-> chat_id, protect_content |-> None, reply_markup |-> None,
     reply_parameters |-> reply_parameters]

SendsRequests ==
    {[op |-> "SendMessage", body |-> SendMessageTextBody(BodyId(100), "a", None, None, Some(1))],
     [op |-> "SendDice", body |-> SendMessageDiceBody(BodyId(100), None, None)],
     [op |-> "SendPoll", body |-> SendPlainBody(BodyId(100), Some(1))]}
        \cup {[op |-> op, body |-> SendUploadBody(BodyId(100), "a.txt", "12345")] :
                op \in UploadEndpoints}
        \cup {[op |-> op, body |-> SendPlainBody(BodyId(100), None)] :
                op \in PlainEndpoints}

InitSends == InitFrom(ReplyInputs)

RequestSends ==
    \E r \in SendsRequests :
        /\ r.op \in UploadEndpoints => Len(state.files) < MaxUploads
        /\ Call(r.op, r.body, route(r.op, state, r.body, NoRandom))

NextSends ==
    \/ Harness
    \/ RequestSends

SpecSends == InitSends /\ [][NextSends]_vars

\* pins, unpins and reactions on stored and on unknown messages
UnpinChatMessageBody(chat_id, message_id) == [chat_id |-> chat_id, message_id |-> message_id]

SetMessageReactionBody(chat_id, message_id, reaction) ==
    [chat_id |-> chat_id, message_id |-> message_id, reaction |-> reaction, is_big |-> None]

PinRequests ==
    {[op |-> "PinChatMessage", body |-> PinChatMessageBody(BodyId(100), id)] : id \in {1, 9}}
        \cup {[op |-> "SetMessageReaction",
               body |-> SetMessageReactionBody(BodyId(100), id, Some(<<"like">>))] :
                id \in {1, 9}}
        \cup {[op |-> "DeleteMessage", body |-> DeleteMessageBody(BodyId(100), 1)],
              [op |-> "SendMessage",
               body |-> SendMessageTextBody(BodyId(100), "a", None, None, None)]}

UnpinRequests ==
    {[op |-> "UnpinChatMessage", body |-> UnpinChatMessageBody(BodyId(100), id)] :
        id \in {None, Some(1), Some(9)}}

InitPins == InitFrom(ReplyInputs)

RequestPins ==
    \/ \E r \in PinRequests : Call(r.op, r.body, route(r.op, state, r.body, NoRandom))
    \/ \E r \in UnpinRequests : Call(r.op, r.body, route(r.op, state, r.body, NoRandom))

NextPins ==
    \/ Harness
    \/ RequestPins

SpecPins == InitPins /\ [][NextPins]_vars

\* edits with every combination of the three optional identifiers
ShapeBodies ==
    {EditMessageTextBody(chat_id, message_id, inline_message_id, "b", None) :
        chat_id \in {None, Some(BodyId(100))},
        message_id \in {None, Some(1), Some(9)},
        inline_message_id \in {None, Some("inline1")}}

InitShapes == InitFrom(ReplyInputs)

EditMessageTextShapes ==
    \E body \in ShapeBodies : Call("EditMessageText", body, edit_message_text(state, body))

NextShapes ==
    \/ Harness
    \/ SendMessage
    \/ EditMessageTextShapes

SpecShapes == InitShapes /\ [][NextShapes]_vars

\* uploads with and without the numeric fields of the media
MediaFields ==
    {[chat_id |-> "100"],
     [chat_id |-> "100", duration |-> "5"],
     [chat_id |-> "100", width |-> "640", height |-> "640", length |-> "640", duration |-> "5"]}

MediaBodies ==
    {MultipartBody(fields, [file |-> Attachment("a.mp4", "12345")]) : fields \in MediaFields}

InitMedia == InitFrom(UploadInputs)

SendMedia ==
    \E endpoint \in UploadEndpoints, request \in MediaBodies :
        \E attachment \in keys_last(request.attachments) :
            /\ Len(state.files) <= MaxUploads
            /\ Call(endpoint, request,
                    send_multipart(state, request, endpoint, attachment, <<"gen1", "ugen1">>))

NextMedia ==
    \/ Harness
    \/ SendMedia

SpecMedia == InitMedia /\ [][NextMedia]_vars

----------------------------------------------------------------------------
(* Update messages that reply to another message *)

\* the message a user replies to, built with the id id
RepliedMessage(id) == Message(id, Group, Some(User1), None, Some("r"), None)

\* a text message built with the id id and .reply_to_message(reply)
ReplyingMessage(id, reply) ==
    [Message(id, Group, Some(User1), None, Some("m"), None)
        EXCEPT !.reply_to_message = reply]

\* one Message update at a time: the default id and an id of its own, alone
\* and in reply to a message with the default id or an id of its own
ReplyToInputs ==
    {<<MessageItem(ReplyingMessage(i, reply))>> :
        i \in {MockMessageText_ID, 2},
        reply \in {None} \cup {Some(RepliedMessage(j)) : j \in {MockMessageText_ID, 2, 3}}}

InitReplyTo == InitFrom(ReplyToInputs)

UpdateReplyTo == UpdateFrom(ReplyToInputs)

NextReplyTo ==
    \/ UpdateReplyTo
    \/ Harness
    \/ SendMessage

SpecReplyTo == InitReplyTo /\ [][NextReplyTo]_vars

\* the step of dispatch that pre-inserts the pending update
PreInsertStep == pc = "reset_done" /\ pc' = "running"

\* the message of the pending update and the message handed to the handler
Incoming == Unwrap(updates[1].message)
Delivered == Unwrap(stream'[1].message)

\* the messages stored before the step are stored unchanged after it
StoredKept ==
    \A i \in DOMAIN state.messages :
        i \in DOMAIN state'.messages /\ state'.messages[i] = state.messages[i]

\* C38: pre-inserting an update message leaves every message that was stored
\* before it as it was. An incoming id that is stored and is not the default
\* id leaves the store unchanged and the message keeps its id; otherwise an id
\* that is at most max_message_id or taken is replaced by max_message_id + 1,
\* the message is stored under the id it ends with, and that id is the one
\* the handler receives.
C38_PreInsertRenumbers ==
    [][PreInsertStep =>
        LET max_id == max_message_id(state.messages)
            taken == Incoming.id \in DOMAIN state.messages
        IN  /\ StoredKept
            /\ IF taken /\ Incoming.id # MockMessageText_ID
               THEN /\ state'.messages = state.messages
                    /\ Delivered.id = Incoming.id
               ELSE /\ Delivered.id = IF Incoming.id <= max_id \/ taken
                                      THEN max_id + 1
                                      ELSE Incoming.id
                    /\ Delivered.id \in DOMAIN state'.messages
                    /\ state'.messages[Delivered.id] = Delivered
                    /\ Delivered.text = Incoming.text]_vars

\* a message with the default id was renumbered to 3 above two stored messages
C38_Witness ==
    /\ pc = "running"
    /\ Len(stream) = 1
    /\ Unwrap(updates[1].message).id = MockMessageText_ID
    /\ Unwrap(stream[1].message).id = 3
    /\ DOMAIN state.messages = {1, 2, 3}

\* a message with a stored id of its own was delivered and the store kept
C38_WitnessKept ==
    /\ pc = "running"
    /\ Len(stream) = 1
    /\ Unwrap(updates[1].message).id = 2
    /\ Unwrap(stream[1].message).id = 2
    /\ IsNone(Unwrap(updates[1].message).reply_to_message)
    /\ 2 \in DOMAIN state.messages
    /\ state.messages[2].text # Some("m")

\* C39: after the pre-insertion of an update message that carries a reply_to
\* message, the message and its reply-to message are both stored, under two
\* distinct ids, whatever ids they came with.
C39_ReplyToStored ==
    [][PreInsertStep /\ IsSome(Incoming.reply_to_message) =>
        LET replied == Unwrap(Delivered.reply_to_message)
        IN  /\ Delivered.id # replied.id
            /\ Delivered.id \in DOMAIN state'.messages
            /\ replied.id \in DOMAIN state'.messages
            /\ state'.messages[Delivered.id].text = Some("m")
            /\ state'.messages[replied.id].text = Some("r")]_vars

\* C39, for a message that is inserted (its id is not a stored id of its own)
\* and whose reply-to message ends with another id than the message
C39_ReplyToStored_Apart ==
    [][/\ PreInsertStep
       /\ IsSome(Incoming.reply_to_message)
       /\ ~(Incoming.id \in DOMAIN state.messages /\ Incoming.id # MockMessageText_ID)
       /\ Delivered.id # Unwrap(Delivered.reply_to_message).id
       => LET replied == Unwrap(Delivered.reply_to_message)
          IN  /\ Delivered.id \in DOMAIN state'.messages
              /\ state'.messages[Delivered.id] = Delivered
              /\ replied.id \in DOMAIN state'.messages]_vars

\* both came with the default id: one message is stored, the replying one
C39_WitnessBothDefault ==
    /\ pc = "running"
    /\ Len(stream) = 1
    /\ IsSome(Unwrap(updates[1].message).reply_to_message)
    /\ Unwrap(updates[1].message).id = MockMessageText_ID
    /\ Unwrap(Unwrap(updates[1].message).reply_to_message).id = MockMessageText_ID
    /\ Unwrap(stream[1].message).id = 1
    /\ Unwrap(Unwrap(stream[1].message).reply_to_message).id = 1
    /\ DOMAIN state.messages = {1}
    /\ state.messages[1].text = Some("m")

\* A dispatch whose task panics

\* the spawned task panics while the handler tree works on an update
TaskPanics ==
    /\ pc = "running"
    /\ IsSome(handling)
    /\ pc' = "task_panicked"
    /\ UNCHANGED <<state, updates, current_update_id, stream, handling, last, made, issued_max,
                   ncalls, ndispatch, nupdate, issued, handed, yielded, bot_api_url, lifecycle>>

\* dispatch() joins the task that panicked
DispatchRepanic ==
    /\ pc = "task_panicked"
    /\ pc' = expect_join("panicked")
    /\ UNCHANGED <<state, updates, current_update_id, stream, handling, last, made, issued_max,
                   ncalls, ndispatch, nupdate, issued, handed, yielded, bot_api_url, lifecycle>>

InitPanic == InitFrom(LogInputs)

UpdatePanic == UpdateFrom(LogInputs)

NextPanic ==
    \/ UpdatePanic
    \/ Harness
    \/ SendMessage
    \/ TaskPanics
    \/ DispatchRepanic

SpecPanic == InitPanic /\ [][NextPanic]_vars

\* Requests served in steps, on two connections, around the lock of the State

\* the response goes out to the bot
Answer(op, body, resp) ==
    /\ last' = [op |-> op, body |-> body, resp |-> resp, issued_before |-> issued_max]
    /\ made' = [sent |-> IF Synthesizes(op, resp)
                         THEN Append(made.sent, Unwrap(resp.message).id)
                         ELSE made.sent,
                logged |-> IF Logs(op, resp)
                           THEN [made.logged EXCEPT ![op] = @ + 1]
                           ELSE made.logged]
    /\ issued_max' = IF Synthesizes(op, resp) /\ Unwrap(resp.message).id > issued_max
                     THEN Unwrap(resp.message).id
                     ELSE issued_max

\* a request of the handler arrives; its body is being read
RequestArrive(c) ==
    /\ pc = "running"
    /\ IsSome(handling)
    /\ ncalls < MaxCalls
    /\ IsNone(inflight[c])
    /\ \E r \in LockRequests :
          inflight' = [inflight EXCEPT ![c] = Some([op |-> r.op, body |-> r.body, stage |-> "reading"])]
    /\ ncalls' = ncalls + 1
    /\ UNCHANGED <<state, updates, current_update_id, pc, stream, handling, last, made, issued_max,
                   ndispatch, nupdate, issued, handed, yielded, server, api_url, bot_api_url, mutex>>

\* the body is read and the handler calls lock_state: it gets the guard, or
\* returns the error of a poisoned lock
RequestLock(c) ==
    /\ IsSome(inflight[c])
    /\ LET r == Unwrap(inflight[c])
       IN  /\ r.stage = "reading"
           /\ locks_state(r.op, r.body)
           /\ lock_free(mutex)
           /\ IF IsNone(lock_state(mutex))
              THEN /\ mutex' = [mutex EXCEPT !.holders = @ \cup {c}]
                   /\ inflight' = [inflight EXCEPT ![c] = Some([r EXCEPT !.stage = "locked"])]
                   /\ UNCHANGED <<last, made, issued_max>>
              ELSE /\ Answer(r.op, r.body, Unwrap(lock_state(mutex)))
                   /\ inflight' = [inflight EXCEPT ![c] = None]
                   /\ UNCHANGED mutex
    /\ UNCHANGED <<state, updates, current_update_id, pc, stream, handling, ncalls,
                   ndispatch, nupdate, issued, handed, yielded, server, api_url, bot_api_url>>

\* the handler works on the State under the guard, drops the guard and returns
RequestServe(c) ==
    /\ IsSome(inflight[c])
    /\ LET r == Unwrap(inflight[c])
           served == route(r.op, state, r.body, NoRandom)
       IN  /\ r.stage = "locked"
           /\ state' = served.state
           /\ Answer(r.op, r.body, served.resp)
    /\ mutex' = [mutex EXCEPT !.holders = @ \ {c}]
    /\ inflight' = [inflight EXCEPT ![c] = None]
    /\ UNCHANGED <<updates, current_update_id, pc, stream, handling, ncalls,
                   ndispatch, nupdate, issued, handed, yielded, server, api_url, bot_api_url>>

\* the handler returns from a branch that never calls lock_state
RequestServeUnlocked(c) ==
    /\ IsSome(inflight[c])
    /\ LET r == Unwrap(inflight[c])
           served == route(r.op, state, r.body, NoRandom)
       IN  /\ r.stage = "reading"
           /\ ~locks_state(r.op, r.body)
           /\ state' = served.state
           /\ Answer(r.op, r.body, served.resp)
    /\ inflight' = [inflight EXCEPT ![c] = None]
    /\ UNCHANGED <<updates, current_update_id, pc, stream, handling, ncalls,
                   ndispatch, nupdate, issued, handed, yielded, server, api_url, bot_api_url, mutex>>

\* the handler panics under the guard: the guard is dropped while unwinding
\* and the lock is poisoned
RequestPanic(c) ==
    /\ IsSome(inflight[c])
    /\ Unwrap(inflight[c]).stage = "locked"
    /\ mutex' = [holders |-> mutex.holders \ {c}, poisoned |-> TRUE]
    /\ inflight' = [inflight EXCEPT ![c] = None]
    /\ UNCHANGED <<state, updates, current_update_id, pc, stream, handling, last, made, issued_max,
                   ncalls, ndispatch, nupdate, issued, handed, yielded, server, api_url, bot_api_url>>

\* dispatch() on a poisoned lock: lock().unwrap() panics
DispatchPoisoned ==
    /\ \/ pc = "idle" /\ ndispatch < MaxDispatches
       \/ pc = "reset_done"
    /\ lock_free(mutex)
    /\ mutex.poisoned
    /\ pc' = "panicked"
    /\ UNCHANGED <<state, updates, current_update_id, stream, handling, last, made, issued_max,
                   ncalls, ndispatch, nupdate, issued, handed, yielded, server, api_url, bot_api_url,
                   mutex, inflight>>

Arrive == \E c \in Connections : RequestArrive(c)
Lock == \E c \in Connections : RequestLock(c)
Serve == \E c \in Connections : RequestServe(c)
ServeUnlocked == \E c \in Connections : RequestServeUnlocked(c)
Panic == \E c \in Connections : RequestPanic(c)

InitLock == InitFrom(LogInputs)

NextLock ==
    \/ Harness
    \/ DispatchPoisoned
    \/ Arrive
    \/ Lock
    \/ Serve
    \/ ServeUnlocked
    \/ Panic

SpecLock == InitLock /\ [][NextLock]_vars

\* The lifecycle of the server, from MockBot::new to the drop of the MockBot

\* the test has called MockBot::new, nothing is constructed yet
InitServer ==
    /\ state = State_default
    /\ updates = <<>>
    /\ current_update_id = 42
    /\ pc = "new"
    /\ stream = <<>>
    /\ handling = None
    /\ last = NoCall
    /\ made = NoneMade
    /\ issued_max = 0
    /\ ncalls = 0
    /\ ndispatch = 0
    /\ nupdate = 0
    /\ issued = <<>>
    /\ yielded = <<>>
    /\ server = NoServer
    /\ api_url = None
    /\ bot_api_url = None
    /\ mutex = Mutex_new
    /\ inflight = NoRequests
    /\ handed = None

harness_vars ==
    <<state, updates, current_update_id, pc, stream, handling, last, made, issued_max,
      ncalls, ndispatch, nupdate, issued, handed, yielded, api_url, bot_api_url, mutex, inflight>>

\* ServerManager::start binds an ephemeral port, spawns run_server and awaits
ServerManager_start ==
    /\ pc = "new"
    /\ \E port \in Ports : server' = Spawned(port)
    /\ pc' = "starting"
    /\ UNCHANGED <<state, updates, current_update_id, stream, handling, last, made, issued_max,
                   ncalls, ndispatch, nupdate, issued, handed, yielded, api_url, bot_api_url, mutex, inflight>>

\* run_server: create_server returns the server or an error; on an error the
\* task logs and returns
CreateServer ==
    /\ server.task = "spawned"
    /\ \E created \in BOOLEAN :
          server' = [server EXCEPT !.task = IF created THEN "created" ELSE "failed"]
    /\ UNCHANGED harness_vars

\* run_server: tx.send(()) signals readiness
SignalReady ==
    /\ server.task = "created"
    /\ server' = [server EXCEPT !.ready = TRUE, !.task = "signalled"]
    /\ UNCHANGED harness_vars

\* run_server: the cancellation watcher is spawned and the server awaited
SpawnWatcher ==
    /\ server.task = "signalled"
    /\ server' = [server EXCEPT !.watcher = "waiting", !.task = "serving"]
    /\ UNCHANGED harness_vars

\* ServerManager::start returns and MockBot::new builds the MockBot
StartReturn ==
    /\ pc = "starting"
    /\ recv_returns(server)
    /\ api_url' = Some(server.port)
    /\ \E x \in LogInputs :
          /\ updates' = into_update(x, current_update_id)
          /\ current_update_id' = current_update_id + Len(x)
          /\ issued' = issued \o [i \in 1..Len(x) |-> into_update(x, current_update_id)[i].id]
    /\ pc' = "idle"
    /\ UNCHANGED <<state, stream, handling, last, made, issued_max, ncalls, ndispatch, nupdate,
                   handed, yielded, server, bot_api_url, mutex, inflight>>

\* Drop for ServerManager, run when the MockBot is dropped: cancel_token.cancel()
DropMockBot ==
    /\ pc = "idle"
    /\ server' = [server EXCEPT !.cancelled = TRUE]
    /\ pc' = "dropped"
    /\ UNCHANGED <<state, updates, current_update_id, stream, handling, last, made, issued_max,
                   ncalls, ndispatch, nupdate, issued, handed, yielded, api_url, bot_api_url, mutex, inflight>>

\* the watcher: cancel_token.cancelled() is over, server_handle.stop(false) is called
WatcherStop ==
    /\ server.watcher = "waiting"
    /\ server.cancelled
    /\ server' = [server EXCEPT !.watcher = "stopping", !.stop = Some([graceful |-> FALSE])]
    /\ UNCHANGED harness_vars

\* run_server: server.await is over once a stop was requested; the task ends
ServerStopped ==
    /\ server.task = "serving"
    /\ IsSome(server.stop)
    /\ server' = [server EXCEPT !.task = "stopped", !.watcher = "done"]
    /\ UNCHANGED harness_vars

\* variant: the handle is looked at, not taken
take_kept(o) == [taken |-> o, rest |-> o]

\* Option::take: what is taken out and what is left
take(o) == [taken |-> o, rest |-> None]

\* the server task has ended: its JoinHandle is ready
task_finished(srv) == srv.task \in {"stopped", "failed"}

\* ServerManager::stop up to the await: the token is cancelled and the handle
\* taken; without a handle the call returns None at once
ServerManager_stop ==
    /\ pc = "idle"
    /\ Len(server.stops) < MaxStops
    /\ IF IsSome(take(server.handle).taken)
       THEN /\ server' = [server EXCEPT !.cancelled = TRUE,
                                        !.handle = take(server.handle).rest]
            /\ pc' = "stopping"
       ELSE /\ server' = [server EXCEPT !.cancelled = TRUE, !.stops = Append(@, "None")]
            /\ pc' = pc
    /\ UNCHANGED <<state, updates, current_update_id, stream, handling, last, made, issued_max,
                   ncalls, ndispatch, nupdate, issued, handed, yielded, api_url, bot_api_url, mutex, inflight>>

\* ServerManager::stop: server.await is over, the call returns Some
StopReturn ==
    /\ pc = "stopping"
    /\ task_finished(server)
    /\ server' = [server EXCEPT !.stops = Append(@, "Some")]
    /\ pc' = "idle"
    /\ UNCHANGED <<state, updates, current_update_id, stream, handling, last, made, issued_max,
                   ncalls, ndispatch, nupdate, issued, handed, yielded, api_url, bot_api_url, mutex, inflight>>

UpdateServer == UpdateFrom(LogInputs)

SendMessageServed == Served /\ SendMessage

NextServer ==
    \/ ServerManager_start
    \/ CreateServer
    \/ SignalReady
    \/ SpawnWatcher
    \/ StartReturn
    \/ DropMockBot
    \/ WatcherStop
    \/ ServerStopped
    \/ UpdateServer
    \/ Harness
    \/ SendMessageServed

SpecServer == InitServer /\ [][NextServer]_vars

\* the lifecycle with calls of ServerManager::stop
NextStop ==
    \/ NextServer
    \/ ServerManager_stop
    \/ StopReturn

SpecStop == InitServer /\ [][NextStop]_vars

\* the tasks of the server are scheduled fairly
SpecServerFair ==
    /\ SpecServer
    /\ WF_vars(CreateServer)
    /\ WF_vars(SignalReady)
    /\ WF_vars(SpawnWatcher)
    /\ WF_vars(WatcherStop)
    /\ WF_vars(ServerStopped)

----------------------------------------------------------------------------
(* Properties *)

Ids(seq) == [i \in 1..Len(seq) |-> seq[i].id]

\* C1: get_responses() holds exactly the entries recorded by the calls of the
\* most recent dispatch(): sent_messages are the messages returned by its
\* send/forward calls, in call order, and every endpoint vector has one entry
\* per successful call of that dispatch; nothing of an earlier dispatch remains.
C1_OnlyLatestDispatch ==
    /\ Ids(get_responses.sent_messages) = made.sent
    /\ \A op \in Endpoints : Len(get_responses[VectorOf(op)]) = made.logged[op]

\* a message sent in the first dispatch is in the store, the second dispatch
\* has returned without a send, and sent_messages is empty
C1_Witness ==
    /\ ndispatch = 2
    /\ pc = "idle"
    /\ \E i \in DOMAIN state.messages : state.messages[i].from = Some(Me)
    /\ made.sent = <<>>
    /\ get_responses.sent_messages = <<>>

\* C2: the reset at the start of dispatch() replaces the response log only;
\* the message store and the file registry are the same after it as before.
C2_ResetKeepsMessagesAndFiles ==
    [][(pc = "idle" /\ pc' = "reset_done") =>
            /\ state'.messages = state.messages
            /\ state'.files = state.files
            /\ state'.responses = Responses_default]_vars

\* the second dispatch has just reset a State that holds messages and files
C2_Witness ==
    /\ pc = "reset_done"
    /\ ndispatch = 2
    /\ DOMAIN state.messages # {}
    /\ Len(state.files) > 0
    /\ ncalls > 0

\* a step in which a send/forward call appended to sent_messages
SentStep ==
    /\ ncalls' = ncalls + 1
    /\ Len(state'.responses.sent_messages) = Len(state.responses.sent_messages) + 1

\* C3: the id of a message appended to sent_messages is the greatest id of
\* the store before the call plus 1, and 1 when the store was empty.
C3_IdIsMaxPlusOne ==
    [][SentStep =>
        LET new == state'.responses.sent_messages[Len(state'.responses.sent_messages)]
            ids == DOMAIN state.messages
        IN  /\ \A i \in ids : i < new.id
            /\ ids = {} => new.id = 1
            /\ ids # {} => (new.id - 1) \in ids]_vars

\* a send into the empty store got id 1 and a later forward was answered
C3_Witness ==
    /\ Len(get_responses.sent_messages) >= 2
    /\ get_responses.sent_messages[1].id = 1
    /\ last.op = "ForwardMessage"
    /\ last.resp.ok

\* C4: the ids of the messages the server synthesizes are strictly
\* increasing in call order over the lifetime of the server: each one is
\* greater than every id synthesized before it.
C4_IdsStrictlyIncreasing ==
    Synthesizes(last.op, last.resp) => Unwrap(last.resp.message).id > last.issued_before

\* a step in which the server answered one API call
CallStep == ncalls' = ncalls + 1

\* an edit request addressed by (chat_id, message_id)
AddressedById(body) ==
    IsSome(body.chat_id) /\ IsSome(body.message_id) /\ IsNone(body.inline_message_id)

\* the stored message differs from the request in text or in markup
DiffersFrom(message, body) ==
    \/ message.text # Some(body.text)
    \/ IsSome(message.reply_markup) # IsSome(body.reply_markup)
    \/ /\ IsSome(body.reply_markup)
       /\ Unwrap(body.reply_markup) # InlineKeyboard(Unwrap(message.reply_markup))

\* C5: of two consecutive EditMessageText calls with the same body on an
\* existing message that differs from the request, the first succeeds, mutates
\* the stored message and appends one entry to edited_messages_text; the
\* second is answered 400 "message is not modified" and changes nothing.
C5_SecondEditNotModified ==
    [][(CallStep /\ last'.op = "EditMessageText" /\ AddressedById(last'.body)) =>
        LET body == last'.body
            id == Unwrap(body.message_id)
        IN  /\ (id \in DOMAIN state.messages /\ DiffersFrom(state.messages[id], body)) =>
                  /\ last'.resp.ok
                  /\ state'.messages[id].text = Some(body.text)
                  /\ Len(state'.responses.edited_messages_text)
                        = Len(state.responses.edited_messages_text) + 1
            /\ (last.op = "EditMessageText" /\ last.resp.ok /\ last.body = body) =>
                  /\ last'.resp.status = 400
                  /\ last'.resp.description = "MessageNotModified"
                  /\ state' = state]_vars

\* C5 for requests whose reply_markup is absent or an inline keyboard
C5_SecondEditNotModified_Inline ==
    [][(CallStep /\ last'.op = "EditMessageText" /\ AddressedById(last'.body)
          /\ last.op = "EditMessageText" /\ last.resp.ok /\ last.body = last'.body
          /\ (IsSome(last'.body.reply_markup) =>
                Unwrap(last'.body.reply_markup).variant = "InlineKeyboard")) =>
            /\ last'.resp.status = 400
            /\ last'.resp.description = "MessageNotModified"
            /\ state' = state]_vars

\* C6: EditMessageText on a message id that is not in the store is answered
\* 400 "message to edit not found"; store, files and log are unchanged.
C6_EditMissingMessage ==
    [][(CallStep /\ last'.op = "EditMessageText" /\ AddressedById(last'.body)
          /\ Unwrap(last'.body.message_id) \notin DOMAIN state.messages) =>
            /\ last'.resp.status = 400
            /\ ~last'.resp.ok
            /\ last'.resp.description = "MessageToEditNotFound"
            /\ state'.messages = state.messages
            /\ state'.files = state.files
            /\ state'.responses = state.responses]_vars

\* an edit of a missing id was refused while the store and the log held entries
C6_Witness ==
    /\ last.op = "EditMessageText"
    /\ last.resp.description = "MessageToEditNotFound"
    /\ DOMAIN state.messages # {}
    /\ Unwrap(last.body.message_id) \notin DOMAIN state.messages
    /\ Len(get_responses.sent_messages) > 0

\* C7: EditMessageText with inline_message_id alone is answered ok with
\* result true and changes nothing: store, files and every log vector.
C7_InlineEditChangesNothing ==
    [][(CallStep /\ last'.op = "EditMessageText"
          /\ IsNone(last'.body.chat_id) /\ IsNone(last'.body.message_id)
          /\ IsSome(last'.body.inline_message_id)) =>
            /\ last'.resp.status = 200
            /\ last'.resp.ok
            /\ IsNone(last'.resp.message)
            /\ state'.messages = state.messages
            /\ state'.files = state.files
            /\ state'.responses = state.responses]_vars

\* an inline edit was answered after an edit of a stored message was recorded
C7_Witness ==
    /\ last.op = "EditMessageText"
    /\ IsSome(last.body.inline_message_id)
    /\ last.resp.ok
    /\ Len(get_responses.edited_messages_text) > 0
    /\ DOMAIN state.messages # {}

\* a step in which the server answered a ForwardMessage whose source is stored
ForwardStep ==
    /\ CallStep
    /\ last'.op = "ForwardMessage"
    /\ last'.body.message_id \in DOMAIN state.messages

\* C8: ForwardMessage of a source with has_protected_content = true is
\* answered HTTP 400; nothing is appended to sent_messages or
\* forwarded_messages, the store is unchanged and no id is consumed.
C8_ProtectedForwardRejected ==
    [][(ForwardStep /\ state.messages[last'.body.message_id].has_protected_content) =>
            /\ last'.resp.status = 400
            /\ ~last'.resp.ok
            /\ state'.responses.sent_messages = state.responses.sent_messages
            /\ state'.responses.forwarded_messages = state.responses.forwarded_messages
            /\ state'.messages = state.messages
            /\ next_message_id(state'.messages) = next_message_id(state.messages)]_vars

\* a forward of a protected message was refused while the log held a sent message
C8_Witness ==
    /\ last.op = "ForwardMessage"
    /\ ~last.resp.ok
    /\ last.body.message_id \in DOMAIN state.messages
    /\ state.messages[last.body.message_id].has_protected_content
    /\ Len(get_responses.sent_messages) > 0

\* C9: the forward origin follows the priority Channel (source chat is a
\* channel), Chat (source has a sender chat), User (source has a from),
\* HiddenUser "Unknown user"; every forwarded message carries exactly one origin.
C9_ForwardOriginPriority ==
    [][(ForwardStep /\ last'.resp.ok) =>
        LET source == state.messages[last'.body.message_id]
            new == Unwrap(last'.resp.message)
            channel == source.chat.kind = "channel"
            sender == IsSome(source.sender_chat)
            user == IsSome(source.from)
        IN  /\ Len(new.forward_origin) = 1
            /\ LET origin == Unwrap(new.forward_origin)
               IN  /\ channel =>
                          /\ origin.type = "Channel"
                          /\ origin.chat = Some(source.chat)
                          /\ origin.message_id = Some(source.id)
                   /\ (~channel /\ sender) =>
                          /\ origin.type = "Chat"
                          /\ origin.sender_chat = source.sender_chat
                   /\ (~channel /\ ~sender /\ user) =>
                          /\ origin.type = "User"
                          /\ origin.sender_user = source.from
                   /\ (~channel /\ ~sender /\ ~user) =>
                          /\ origin.type = "HiddenUser"
                          /\ origin.sender_user_name = Some("Unknown user")]_vars

\* a message from a channel that also has a sender chat and a from was forwarded
C9_Witness ==
    /\ last.op = "ForwardMessage"
    /\ last.resp.ok
    /\ last.body.message_id \in DOMAIN state.messages
    /\ LET source == state.messages[last.body.message_id]
       IN  /\ source.chat.kind = "channel"
           /\ IsSome(source.sender_chat)
           /\ IsSome(source.from)
    /\ Unwrap(Unwrap(last.resp.message).forward_origin).type = "Channel"

\* a message with no channel, no sender chat and no from was forwarded
C9_WitnessHidden ==
    /\ last.op = "ForwardMessage"
    /\ last.resp.ok
    /\ Unwrap(Unwrap(last.resp.message).forward_origin).type = "HiddenUser"

\* C10: a successful ForwardMessage inserts a new message with
\* id = max_message_id + 1, the chat of the request and from = the bot, and
\* leaves every stored message, the source included, as it was under its id.
C10_ForwardInsertsCopy ==
    [][(ForwardStep /\ last'.resp.ok) =>
        LET body == last'.body
            new == Unwrap(last'.resp.message)
        IN  /\ new.id = max_message_id(state.messages) + 1
            /\ DOMAIN state'.messages = DOMAIN state.messages \cup {new.id}
            /\ state'.messages[new.id] = new
            /\ new.chat.id = (IF body.chat_id.tag = "Id" THEN body.chat_id.id
                              ELSE DEFAULT_TEXT_CHAT_ID)
            /\ new.from = Some(Me)
            /\ \A i \in DOMAIN state.messages : state'.messages[i] = state.messages[i]
            /\ state'.messages[body.message_id].forward_origin
                  = state.messages[body.message_id].forward_origin]_vars

\* a user's message in another chat was forwarded and is still stored as it was
C10_Witness ==
    /\ last.op = "ForwardMessage"
    /\ last.resp.ok
    /\ last.body.message_id \in DOMAIN state.messages
    /\ LET source == state.messages[last.body.message_id]
           new == Unwrap(last.resp.message)
       IN  /\ source.from = Some(User1)
           /\ IsNone(source.forward_origin)
           /\ source.chat # new.chat
           /\ new.id \in DOMAIN state.messages

\* C11: DeleteMessage on a stored id removes exactly that message, leaves
\* every other stored message as it was and appends the removed message with
\* the request to deleted_messages; on an id that is not stored it is
\* answered HTTP 400 and leaves store and log unchanged.
C11_DeleteRemovesExactlyOne ==
    [][(CallStep /\ last'.op = "DeleteMessage") =>
        LET body == last'.body
            id == body.message_id
        IN  /\ id \in DOMAIN state.messages =>
                  /\ last'.resp.ok
                  /\ DOMAIN state'.messages = DOMAIN state.messages \ {id}
                  /\ \A i \in DOMAIN state'.messages :
                        state'.messages[i] = state.messages[i]
                  /\ state'.responses = [state.responses EXCEPT !.deleted_messages =
                        Append(@, [message |-> state.messages[id], bot_request |-> body])]
            /\ id \notin DOMAIN state.messages =>
                  /\ last'.resp.status = 400
                  /\ ~last'.resp.ok
                  /\ state'.messages = state.messages
                  /\ state'.responses = state.responses]_vars

\* a message was deleted while another one stayed in the store
C11_Witness ==
    /\ last.op = "DeleteMessage"
    /\ last.resp.ok
    /\ DOMAIN state.messages # {}
    /\ Len(get_responses.deleted_messages) = 1
    /\ get_responses.deleted_messages[1].message.id = last.body.message_id
    /\ last.body.message_id \notin DOMAIN state.messages

\* a delete of an id that is not stored was refused
C11_WitnessAbsent ==
    /\ last.op = "DeleteMessage"
    /\ ~last.resp.ok
    /\ DOMAIN state.messages # {}

\* the stored messages of chat C sent by user U
MessagesOf(messages, C, U) ==
    {i \in DOMAIN messages :
        /\ messages[i].chat.id = C
        /\ IsSome(messages[i].from)
        /\ Unwrap(messages[i].from) = U}

\* C12: BanChatMember(C, U) with revoke_messages = true removes from the store
\* exactly the messages of chat C sent by U and leaves the others as they
\* were; with revoke_messages false or omitted the store is unchanged; in
\* both cases the request is appended to banned_chat_members.
C12_BanRevokesExactly ==
    [][(CallStep /\ last'.op = "BanChatMember") =>
        LET body == last'.body
            C == BodyChatId_id(body.chat_id)
            revoke == body.revoke_messages = Some(TRUE)
        IN  /\ last'.resp.ok
            /\ revoke =>
                  /\ DOMAIN state'.messages
                        = DOMAIN state.messages \ MessagesOf(state.messages, C, body.user_id)
                  /\ \A i \in DOMAIN state'.messages :
                        state'.messages[i] = state.messages[i]
            /\ ~revoke => state'.messages = state.messages
            /\ state'.responses = [state.responses EXCEPT !.banned_chat_members =
                                        Append(@, body)]]_vars

\* a ban with revoke removed two messages of the user and left a message of
\* the bot in the same chat and a message without the user in the store
C12_Witness ==
    /\ last.op = "BanChatMember"
    /\ last.body.revoke_messages = Some(TRUE)
    /\ last.body.user_id = User1
    /\ DOMAIN state.messages = {3}
    /\ state.messages[3].chat.id = 100
    /\ state.messages[3].from = Some(Me)

\* a ban with revoke left a message of the user in another chat and a
\* message without a sender in the banned chat
C12_WitnessOthers ==
    /\ last.op = "BanChatMember"
    /\ last.body.revoke_messages = Some(TRUE)
    /\ \E i, j \in DOMAIN state.messages :
          /\ state.messages[i].chat.id = 200 /\ state.messages[i].from = Some(User1)
          /\ state.messages[j].chat.id = 100 /\ IsNone(state.messages[j].from)

\* a ban without revoke left the messages of the user in the store
C12_WitnessKept ==
    /\ last.op = "BanChatMember"
    /\ last.body.revoke_messages # Some(TRUE)
    /\ MessagesOf(state.messages, 100, User1) # {}

\* the Files of the registry
Registered(files) == {files[i] : i \in 1..Len(files)}

\* C13: GetFile returns a File of the registry whose id is the requested
\* file_id when there is one, and HTTP 400 "File not found" otherwise; the
\* registry, the store and the log are unchanged in both cases.
C13_GetFileLooksUp ==
    [][(CallStep /\ last'.op = "GetFile") =>
        LET file_id == last'.body.file_id
            known == \E f \in Registered(state.files) : f.meta.id = file_id
        IN  /\ known =>
                  /\ last'.resp.status = 200
                  /\ last'.resp.ok
                  /\ last'.resp.file \in Registered(state.files)
                  /\ last'.resp.file.meta.id = file_id
            /\ ~known =>
                  /\ last'.resp.status = 400
                  /\ ~last'.resp.ok
                  /\ last'.resp.description = "File not found"
            /\ state' = state]_vars

\* an uploaded file was looked up in a registry that starts with another file
C13_Witness ==
    /\ last.op = "GetFile"
    /\ last.resp.ok
    /\ last.resp.file.meta.id = "gen1"
    /\ state.files[1].meta.id = "file1"
    /\ state.files[Len(state.files)].meta.id = "gen2"
    /\ Len(get_responses.sent_messages) = 2

\* a lookup of an id that is not registered was refused
C13_WitnessMissing ==
    /\ last.op = "GetFile"
    /\ last.resp.description = "File not found"
    /\ Len(state.files) > 1

\* a step in which an upload endpoint answered with a synthesized message
UploadStep == CallStep /\ last'.op \in UploadEndpoints /\ last'.resp.ok

\* the file of the message is as large as the uploaded data and is registered
\* under the uploaded file name
UploadRecorded(message, body, files) ==
    /\ IsSome(message.file)
    /\ Unwrap(message.file).size = Len(body.file_data)
    /\ File(Unwrap(message.file), body.file_name) \in Registered(files)

\* C14: for every upload endpoint and every request with file data of size S,
\* the file size of the synthesized message is S and after the call the
\* registry holds a File with the file meta of that message and the uploaded
\* file name as its path.
C14_UploadSizeAndRegistry ==
    [][UploadStep =>
        UploadRecorded(Unwrap(last'.resp.message), last'.body, state'.files)]_vars

\* C14 for the upload endpoints other than SendSticker
C14_UploadSizeAndRegistry_NoSticker ==
    [][(UploadStep /\ last'.op # "SendSticker") =>
        UploadRecorded(Unwrap(last'.resp.message), last'.body, state'.files)]_vars

\* the registry entry of an uploaded sticker: its path is the uploaded name
C14_StickerRegistered ==
    [][(UploadStep /\ last'.op = "SendSticker") =>
        LET message == Unwrap(last'.resp.message)
        IN  File(Unwrap(message.file), last'.body.file_name) \in Registered(state'.files)]_vars

\* C15: the file registry is append-only: over every step of the server and
\* of the harness, every File of the registry stays at its position.
C15_FilesAppendOnly ==
    [][/\ Len(state'.files) >= Len(state.files)
       /\ \A i \in 1..Len(state.files) : state'.files[i] = state.files[i]]_vars

\* the second dispatch reset the log and its edited message took the place of
\* the message that brought the first file; both files are registered
C15_Witness ==
    /\ ndispatch = 2
    /\ pc = "running"
    /\ Len(state.files) >= 2
    /\ state.files[1].meta = Doc1
    /\ \E i \in 1..Len(state.files) : state.files[i].meta = Doc2
    /\ \A i \in DOMAIN state.messages : state.messages[i].file # Some(Doc1)

\* a ban with revoke emptied the store and the registry still holds a file
C15_WitnessBan ==
    /\ last.op = "BanChatMember"
    /\ DOMAIN state.messages = {}
    /\ Len(state.files) >= 1

\* a delete removed the message that brought the file
C15_WitnessDelete ==
    /\ last.op = "DeleteMessage"
    /\ last.resp.ok
    /\ Len(state.files) >= 1
    /\ 1 \notin DOMAIN state.messages

\* a step in which the server answered a send request that names a reply target
ReplyingStep ==
    /\ CallStep
    /\ last'.op \in {"SendMessage", "SendDice"} \cup UploadEndpoints
    /\ IsSome(last'.body.reply_parameters)

\* the answer to a send request whose reply target is not stored
ReplyRejected ==
    /\ last'.resp.status = 400
    /\ ~last'.resp.ok
    /\ last'.resp.description = "Bad Request: message to reply not found"
    /\ state'.messages = state.messages
    /\ max_message_id(state'.messages) = max_message_id(state.messages)
    /\ state'.responses = state.responses

\* C16: a send request whose reply_parameters names an id that is not stored
\* is answered HTTP 400 "message to reply not found" and inserts nothing,
\* consumes no id and logs nothing; when the id is stored, the reply_to of the
\* synthesized message is a copy of the message stored at that moment.
C16_ReplyTarget ==
    [][ReplyingStep =>
        LET target == Unwrap(last'.body.reply_parameters)
        IN  /\ target \notin DOMAIN state.messages => ReplyRejected
            /\ target \in DOMAIN state.messages =>
                  /\ last'.resp.ok
                  /\ Unwrap(last'.resp.message).reply_to_message
                        = Some(state.messages[target])]_vars

\* C16 for SendMessage
C16_ReplyTarget_SendMessage ==
    [][(ReplyingStep /\ last'.op = "SendMessage") =>
        LET target == Unwrap(last'.body.reply_parameters)
        IN  /\ target \notin DOMAIN state.messages => ReplyRejected
            /\ target \in DOMAIN state.messages =>
                  /\ last'.resp.ok
                  /\ Unwrap(last'.resp.message).reply_to_message
                        = Some(state.messages[target])]_vars

\* the rejection of C16 for SendDice
C16_ReplyRejected_SendDice ==
    [][(ReplyingStep /\ last'.op = "SendDice"
          /\ Unwrap(last'.body.reply_parameters) \notin DOMAIN state.messages) =>
        ReplyRejected]_vars

\* the sum of the lengths of the vectors of the endpoints in ops
RECURSIVE SumOfLengths(_, _)
SumOfLengths(responses, ops) ==
    IF ops = {} THEN 0
    ELSE LET op == CHOOSE o \in ops : TRUE
         IN  Len(responses[VectorOf(op)]) + SumOfLengths(responses, ops \ {op})

C18_LogInCallOrder ==
    /\ [](made.sent # <<>> =>
            LET sent == get_responses.sent_messages
            IN  /\ sent # <<>>
                /\ sent[1].id = made.sent[1]
                /\ sent[Len(sent)].id = made.sent[Len(made.sent)])
    /\ [][CallStep =>
            LET sent == state.responses.sent_messages
                sent_after == state'.responses.sent_messages
            IN  IF Synthesizes(last'.op, last'.resp)
                THEN /\ Len(sent_after) = Len(sent) + 1
                     /\ sent_after[Len(sent_after)] = Unwrap(last'.resp.message)
                     /\ \A i \in 1..Len(sent) : sent_after[i] = sent[i]
                ELSE sent_after = sent]_vars

\* three sends of one dispatch are logged: the first is a forward, the last a
\* text message
C18_Witness ==
    /\ Len(get_responses.sent_messages) = 3
    /\ last.op = "SendMessage"
    /\ last.resp.ok
    /\ get_responses.sent_messages[3] = Unwrap(last.resp.message)
    /\ IsSome(get_responses.sent_messages[1].forward_origin)
    /\ get_responses.sent_messages[1].id < get_responses.sent_messages[3].id

\* the endpoints whose request has a reply_markup and whose log entry pairs
\* the request with a message
MarkupEndpoints == {"SendMessage", "SendDice", "EditMessageText"} \cup UploadEndpoints

C19_WitnessEdit ==
    /\ last.op = "EditMessageText"
    /\ last.resp.ok
    /\ get_responses.edited_messages_text[1].bot_request.reply_markup = Some(Keyboard1)
    /\ IsNone(get_responses.edited_messages_text[1].message.reply_markup)

\* the step of dispatch() that inserts the one pending update
InsertStep == pc = "reset_done" /\ pc' = "running" /\ Len(updates) = 1

\* the store gained the message under the id new and kept the others
AddedAs(message, new) ==
    /\ new \notin DOMAIN state.messages
    /\ DOMAIN state'.messages = DOMAIN state.messages \cup {new}
    /\ state'.messages[new] = [message EXCEPT !.id = new]
    /\ \A i \in DOMAIN state.messages : state'.messages[i] = state.messages[i]

\* the store gained the message, under some id
Added(message) == \E new \in DOMAIN state'.messages : AddedAs(message, new)

\* the stored message with the id was replaced, nothing was inserted
Mutated(message) ==
    /\ DOMAIN state'.messages = DOMAIN state.messages
    /\ \A i \in DOMAIN state.messages :
          state'.messages[i] = IF i = message.id THEN message ELSE state.messages[i]

\* C20: before the handler runs, dispatch() adds the message of a Message
\* update to the store, mutates the stored message for an EditedMessage update
\* and never inserts for it, adds the message of a CallbackQuery update only
\* when it is a Regular message, and leaves the store unchanged for every
\* other kind of update.
C20_PreInsert ==
    [][InsertStep =>
        LET update == updates[1]
        IN  /\ update.kind = "Message" => Added(Unwrap(update.message))
            /\ update.kind = "EditedMessage" => Mutated(Unwrap(update.message))
            /\ update.kind = "CallbackQuery" =>
                  IF IsSome(update.message) /\ update.regular
                  THEN Added(Unwrap(update.message))
                  ELSE state'.messages = state.messages
            /\ update.kind \notin {"Message", "EditedMessage", "CallbackQuery"} =>
                  state'.messages = state.messages]_vars

\* State::add_message on a store: a message whose id is stored and is not the
\* default id is left out; otherwise the message is added, under its own id
\* when that is above every stored id and under the greatest id plus 1 if not
AddedOrLeftOut(message) ==
    IF message.id \in DOMAIN state.messages /\ message.id # MockMessageText_ID
    THEN state'.messages = state.messages
    ELSE AddedAs(message,
                 IF message.id <= max_message_id(state.messages)
                 THEN max_message_id(state.messages) + 1
                 ELSE message.id)

\* C20, amended: as C20, except that the message of a Message update or of a
\* Regular CallbackQuery update is left out when a message with its id is
\* stored and the id is not the default id of the builders, and is otherwise
\* added under a fresh id (its own id if that is above every stored id).
C20_PreInsert_Amended ==
    [][InsertStep =>
        LET update == updates[1]
        IN  /\ update.kind = "Message" => AddedOrLeftOut(Unwrap(update.message))
            /\ update.kind = "EditedMessage" => Mutated(Unwrap(update.message))
            /\ update.kind = "CallbackQuery" =>
                  IF IsSome(update.message) /\ update.regular
                  THEN AddedOrLeftOut(Unwrap(update.message))
                  ELSE state'.messages = state.messages
            /\ update.kind \notin {"Message", "EditedMessage", "CallbackQuery"} =>
                  state'.messages = state.messages]_vars

\* the second dispatch has inserted its update, a message with id 2, while
\* the store holds the message 2 the bot sent in the first dispatch
C20_Witness ==
    /\ pc = "running"
    /\ ndispatch = 2
    /\ stream # <<>>
    /\ stream[1].kind = "Message"
    /\ Unwrap(stream[1].message) = OwnIdMessage
    /\ 2 \in DOMAIN state.messages
    /\ state.messages[2].from = Some(Me)

\* an edited message took the place of the stored message
C20_WitnessEdit ==
    /\ pc = "running"
    /\ stream # <<>>
    /\ stream[1].kind = "EditedMessage"
    /\ 1 \in DOMAIN state.messages
    /\ state.messages[1] = EditedPlain

\* an inaccessible callback message was not added to the stored messages
C20_WitnessCallback ==
    /\ pc = "running"
    /\ stream # <<>>
    /\ stream[1].kind = "CallbackQuery"
    /\ ~stream[1].regular
    /\ IsSome(stream[1].message)
    /\ DOMAIN state.messages # {}
    /\ \A i \in DOMAIN state.messages : state.messages[i].text # Some("menu")

\* C21: the update ids one MockBot has issued, over new() and every update(x),
\* start at 42, grow by one per produced update, and so are pairwise distinct
\* and strictly increasing in the order of issue; the pending updates carry
\* the ids issued last and the counter stands after the last id.
C21_UpdateIdsMonotonic ==
    /\ issued # <<>>
    /\ issued[1] = 42
    /\ \A i \in 1..(Len(issued) - 1) : issued[i + 1] = issued[i] + 1
    /\ \A i, j \in 1..Len(issued) : i < j => issued[i] < issued[j]
    /\ \A i, j \in 1..Len(issued) : i # j => issued[i] # issued[j]
    /\ current_update_id = issued[Len(issued)] + 1
    /\ Len(updates) <= Len(issued)
    /\ \A i \in 1..Len(updates) :
          updates[i].id = issued[Len(issued) - Len(updates) + i]

\* new() and two update(x) calls have issued ids, the last call two at once
C21_Witness ==
    /\ nupdate = 2
    /\ Len(updates) = 2
    /\ Len(issued) >= 4
    /\ updates[2].id = issued[Len(issued)]

\* the MockBot exists: new() has returned
Constructed == pc \notin {"new", "starting"}

\* C22: one server is started per MockBot, in new(); no step of dispatch()
\* (nor any other step after new()) starts or restarts a server or moves it to
\* another port, and the client of every dispatch is rerouted to the one
\* api_url, which names the port of that server.
C22_OneServerOneUrl ==
    /\ [](/\ server.spawned <= 1
          /\ Constructed =>
                /\ server.spawned = 1
                /\ api_url = Some(server.port)
                /\ bot_api_url \in {None, api_url}
          /\ pc = "running" => bot_api_url = api_url)
    /\ [][Constructed =>
             /\ server'.spawned = server.spawned
             /\ server'.port = server.port
             /\ api_url' = api_url]_vars

\* the second dispatch runs, its client rerouted to the port of the server
\* that new() started
C22_Witness ==
    /\ pc = "running"
    /\ ndispatch = 2
    /\ server.spawned = 1
    /\ bot_api_url = Some(server.port)
    /\ server.port = 50002

\* C23: ServerManager::start returns only after the server task has sent its
\* readiness signal.
C23_ReadyBeforeReturn == Constructed => server.ready

\* C23, when create_server succeeds: start returns after the readiness signal
C23_ReadyBeforeReturn_Created ==
    Constructed /\ server.task # "failed" => server.ready

\* start has returned although create_server failed and nothing was signalled
C23_WitnessFailed ==
    /\ pc = "idle"
    /\ server.task = "failed"
    /\ ~server.ready

\* the server task has ended, by a requested stop or by a failed create_server
Terminated == server.task \in {"stopped", "failed"}

\* C24: dropping the MockBot cancels the signal without waiting for anything,
\* and once the signal is cancelled the watcher eventually requests a graceful
\* stop and the server task eventually terminates.
C24_DropStopsGracefully ==
    /\ [](pc = "idle" => ENABLED DropMockBot)
    /\ [][pc' = "dropped" /\ pc # "dropped" => server'.cancelled]_vars
    /\ server.cancelled ~> (IsSome(server.stop) /\ Unwrap(server.stop).graceful)
    /\ server.cancelled ~> Terminated

\* C24 without the kind of the stop: the drop cancels without waiting, a
\* watcher that was spawned eventually requests a stop, and the server task
\* eventually terminates.
C24_DropStops ==
    /\ [](pc = "idle" => ENABLED DropMockBot)
    /\ [][pc' = "dropped" /\ pc # "dropped" => server'.cancelled]_vars
    /\ (server.cancelled /\ server.task # "failed") ~> IsSome(server.stop)
    /\ server.cancelled ~> Terminated

\* the MockBot was dropped while the server served, the watcher has asked for
\* a stop that is not graceful, and the server task has ended
C24_WitnessStop ==
    /\ pc = "dropped"
    /\ server.cancelled
    /\ server.task = "stopped"
    /\ server.stop = Some([graceful |-> FALSE])

\* the yielded update is the pending update, but for the id its message was
\* given when it was inserted into the store
SameUpdate(y, u) ==
    /\ y.id = u.id
    /\ y.kind = u.kind
    /\ y.regular = u.regular
    /\ IsSome(y.message) = IsSome(u.message)
    /\ IsSome(u.message) =>
          [Unwrap(y.message) EXCEPT !.id = 0] = [Unwrap(u.message) EXCEPT !.id = 0]

\* C25: the stream of a dispatch yields the pending updates, each once and in
\* their order, and then ends: what was yielded is at every moment a prefix of
\* the pending updates, each yield hands the next one to the handler tree, and
\* when dispatch() returns all of them have been yielded; dispatch() spawns the
\* task right after the updates are inserted, and the task ends and dispatch()
\* returns, given that every handler invocation terminates.
C25_StreamYieldsPendingOnce ==
    /\ [](pc = "running" =>
            /\ Len(yielded) + Len(stream) = Len(updates)
            /\ \A i \in 1..Len(yielded) : SameUpdate(yielded[i], updates[i])
            /\ \A i \in 1..Len(stream) : SameUpdate(stream[i], updates[Len(yielded) + i]))
    /\ [][/\ (pc = "running" /\ pc' = "idle" =>
                 /\ Len(yielded) = Len(updates)
                 /\ \A i \in 1..Len(updates) : SameUpdate(yielded[i], updates[i]))
          /\ (pc = "running" /\ yielded' # yielded /\ pc' = "running" =>
                 /\ Len(yielded') = Len(yielded) + 1
                 /\ handling' = Some(yielded'[Len(yielded')])
                 /\ SameUpdate(yielded'[Len(yielded')], updates[Len(yielded')]))]_vars
    /\ [][pc = "reset_done" => pc' = "running"]_vars
    /\ (pc = "running") ~> (pc = "idle")

\* three pending updates have been yielded and handled, the stream has ended
C25_Witness ==
    /\ pc = "running"
    /\ Len(updates) = 3
    /\ Len(yielded) = 3
    /\ stream = <<>>
    /\ handling = None

\* a dispatch without pending updates: the stream ends at once
C25_WitnessEmpty ==
    /\ pc = "running"
    /\ updates = <<>>
    /\ stream = <<>>

\* the request on the connection is at the stage
AtStage(c, stage) == IsSome(inflight[c]) /\ Unwrap(inflight[c]).stage = stage

\* C26: at most one party holds the lock of the State at a time; a holder is a
\* handler that has read its body and has not returned, never a handler that
\* is still reading nor the harness while it awaits; the State only changes in
\* a step of the one holder, or in a step of the harness that takes the free
\* lock and gives it back within the step; a handler takes the lock only
\* after its body is read and no longer holds it once it has returned.
C26_OneHolderNoSuspension ==
    /\ [](/\ Cardinality(mutex.holders) <= 1
          /\ mutex.holders \subseteq Connections
          /\ \A c \in Connections : c \in mutex.holders <=> AtStage(c, "locked")
          /\ \A c \in Connections : AtStage(c, "reading") => c \notin mutex.holders)
    /\ [][/\ state' # state =>
                \/ mutex.holders = {} /\ mutex'.holders = {} /\ pc' # pc
                \/ \E c \in Connections :
                      mutex.holders = {c} /\ AtStage(c, "locked") /\ mutex'.holders = {}
          /\ \A c \in Connections :
                /\ c \notin mutex.holders /\ c \in mutex'.holders =>
                      AtStage(c, "reading") /\ mutex.holders = {}
                /\ IsSome(inflight[c]) /\ IsNone(inflight'[c]) => c \notin mutex'.holders]_vars

\* one handler holds the lock while another request, whose body is read,
\* waits for it
C26_Witness ==
    /\ mutex.holders = {1}
    /\ AtStage(1, "locked")
    /\ AtStage(2, "reading")
    /\ locks_state(Unwrap(inflight[2]).op, Unwrap(inflight[2]).body)

\* the handler of an upload holds the lock after its multipart body was read
C26_WitnessUpload ==
    /\ mutex.holders = {2}
    /\ AtStage(2, "locked")
    /\ Unwrap(inflight[2]).op = "SendDocument"

\* the answer to a poisoned lock
PoisonedAnswer(resp) ==
    /\ resp.status = 500
    /\ ~resp.ok
    /\ resp.description = "Internal server error: state lock poisoned"

C27_WitnessInline ==
    /\ mutex.poisoned
    /\ last.op = "EditMessageText"
    /\ last.resp.status = 200
    /\ IsSome(last.body.inline_message_id)

\* C28: a POST to a name no route is registered for is answered with HTTP 500
\* and a message that names the endpoint and points to the issue tracker, and
\* leaves the message store, the file registry and the response log as they were.
C28_UnknownEndpoint500 ==
    [][CallStep /\ last'.op \notin RegisteredRoutes =>
          /\ last'.resp.status = 500
          /\ last'.resp.endpoint = last'.op
          /\ last'.resp.issues = ISSUES_URL
          /\ state'.messages = state.messages
          /\ state'.files = state.files
          /\ state'.responses = state.responses]_vars

\* after a send and an upload were logged, a POST to sendMessage (not the
\* registered SendMessage) was answered 500 and nothing was added
C28_Witness ==
    /\ last.op = "sendMessage"
    /\ last.resp.status = 500
    /\ Len(state.responses.sent_messages) = 2
    /\ Len(state.files) >= 2
    /\ ncalls = 3

\* C29: when the task that runs the handler tree panics, dispatch() panics:
\* the join of the panicked task is ready, its only outcome is the panic of
\* dispatch(), and a dispatch() that panicked never returns normally.
C29_TaskPanicRepanics ==
    /\ [](pc = "task_panicked" => ENABLED DispatchRepanic)
    /\ [][/\ pc = "task_panicked" => pc' = "panicked"
          /\ pc = "panicked" => pc' = "panicked"]_vars

\* the task of the second dispatch panicked after the bot had sent a message,
\* and dispatch() has panicked
C29_Witness ==
    /\ pc = "panicked"
    /\ ndispatch = 2
    /\ IsSome(handling)
    /\ state.responses.sent_messages # <<>>

\* the media kind each upload endpoint is named after
MediaKind(endpoint) ==
    IF endpoint = "SendVideoNote" THEN "VideoNote" ELSE FileType_passed(endpoint)

\* a call of an upload endpoint whose multipart body carries no attachment
\* (and a chat id)
BareUploadStep ==
    /\ CallStep
    /\ last'.op \in UploadEndpoints
    /\ DOMAIN last'.body.attachments = {}
    /\ IsSome(from_str_chat_id(last'.body.fields.chat_id))

\* the call took the file data from the scalar field of file_type under the
\* default name of file_type: the message is answered, logged with that body
\* and registered under that name
TakenFromField(file_type) ==
    LET log == state'.responses[VectorOf(last'.op)]
        entry == log[Len(log)]
    IN  /\ last'.resp.ok
        /\ Len(log) = Len(state.responses[VectorOf(last'.op)]) + 1
        /\ entry.message = Unwrap(last'.resp.message)
        /\ entry.bot_request.file_data = last'.body.fields[FileType_field(file_type)]
        /\ entry.bot_request.file_name = FileType_file_name(file_type)
        /\ Len(state'.files) = Len(state.files) + 1
        /\ state'.files[Len(state'.files)].path = FileType_file_name(file_type)

\* the call was rejected as unparseable and changed nothing
RejectedUnparsed ==
    /\ last'.resp.status = 400
    /\ last'.resp.description = "Failed to parse request body"
    /\ state' = state

\* C30: for every upload endpoint, a multipart body without attachment has its
\* file data taken from the scalar field named after the media kind of the
\* endpoint, under the default file name of that kind; with neither an
\* attachment nor that field the request is rejected with HTTP 400 'Failed to
\* parse request body' and no message is inserted or logged.
C30_ScalarFieldFallback ==
    [][BareUploadStep =>
        IF FileType_field(MediaKind(last'.op)) \in DOMAIN last'.body.fields
        THEN TakenFromField(MediaKind(last'.op))
        ELSE RejectedUnparsed]_vars

\* C30 with the kind the handler passes in place of the kind of the endpoint:
\* what the handlers do
C30_ScalarFieldFallback_Passed ==
    [][BareUploadStep =>
        IF FileType_field(FileType_passed(last'.op)) \in DOMAIN last'.body.fields
        THEN TakenFromField(FileType_passed(last'.op))
        ELSE RejectedUnparsed]_vars

\* C30 for the upload endpoints other than SendVideoNote
C30_ScalarFieldFallback_NoVideoNote ==
    [][(BareUploadStep /\ last'.op # "SendVideoNote") =>
        IF FileType_field(MediaKind(last'.op)) \in DOMAIN last'.body.fields
        THEN TakenFromField(MediaKind(last'.op))
        ELSE RejectedUnparsed]_vars

\* a video note sent in the scalar field video_note, without attachment, was
\* rejected
C30_WitnessVideoNote ==
    /\ last.op = "SendVideoNote"
    /\ DOMAIN last.body.attachments = {}
    /\ "video_note" \in DOMAIN last.body.fields
    /\ last.resp.status = 400
    /\ last.resp.description = "Failed to parse request body"

\* a video note sent in the scalar field voice, without attachment, was stored
\* under the default name of a voice message
C30_WitnessVoiceField ==
    /\ last.op = "SendVideoNote"
    /\ DOMAIN last.body.attachments = {}
    /\ "voice" \in DOMAIN last.body.fields
    /\ last.resp.ok
    /\ state.files[Len(state.files)].path = "no_name.mp3"

\* a photo sent in the scalar field photo was stored as no_name.jpg
C30_WitnessPhoto ==
    /\ last.op = "SendPhoto"
    /\ DOMAIN last.body.attachments = {}
    /\ "photo" \in DOMAIN last.body.fields
    /\ last.resp.ok
    /\ state.files[Len(state.files)].path = "no_name.jpg"

\* the endpoints that send a message of the bot
SendEndpoints == {"SendMessage", "SendDice"} \cup UploadEndpoints \cup PlainEndpoints

\* a step in which a send endpoint synthesized a message
SendStep == CallStep /\ last'.op \in SendEndpoints /\ last'.resp.ok

\* C31: every message synthesized by a send endpoint (text, media, location,
\* venue, contact, dice, poll, sticker) has from equal to the bot user the
\* server was started with.
C31_FromIsBot ==
    [][SendStep => Unwrap(last'.resp.message).from = Some(Me)]_vars

\* C31 for the send endpoints other than SendDice, for the answer, the stored
\* message and the logged message
C31_FromIsBot_NoDice ==
    [][(SendStep /\ last'.op # "SendDice") =>
        LET message == Unwrap(last'.resp.message)
        IN  /\ message.from = Some(Me)
            /\ state'.messages[message.id].from = Some(Me)
            /\ state'.responses.sent_messages[Len(state'.responses.sent_messages)].from
                    = Some(Me)]_vars

\* a dice was sent and its message does not come from the bot
C31_WitnessDice ==
    /\ last.op = "SendDice"
    /\ last.resp.ok
    /\ Unwrap(last.resp.message).from # Some(Me)

\* a poll was sent in reply to a stored message and comes from the bot
C31_WitnessPoll ==
    /\ last.op = "SendPoll"
    /\ last.resp.ok
    /\ IsSome(Unwrap(last.resp.message).reply_to_message)
    /\ Unwrap(last.resp.message).from = Some(Me)

\* update(x) ran: the pending updates are the ones built from x, none is kept
UpdateReplaces ==
    [][nupdate' = nupdate + 1 =>
        /\ Len(updates') = current_update_id' - current_update_id
        /\ \A i \in DOMAIN updates' : updates'[i].id = current_update_id + i - 1]_vars

\* no other step changes the pending updates
PendingKept == [][nupdate' = nupdate => updates' = updates]_vars

\* a dispatch hands updates to the dispatcher with no update(x) since the
\* dispatch before
Redispatch == pc = "reset_done" /\ pc' = "running" /\ IsSome(handed)

\* C32: update(x) replaces the pending updates with the updates built from x,
\* and dispatch() delivers a clone, so the pending updates are not consumed:
\* two dispatch() calls with no update() in between deliver the same updates,
\* with the same update ids, twice.
C32_PendingReplacedNotConsumed ==
    /\ UpdateReplaces
    /\ PendingKept
    /\ [][Redispatch => stream' = Unwrap(handed)]_vars

\* C32 with the delivered updates the same up to the ids of their messages:
\* the same update ids and kinds in the same order, and the same messages but
\* for a message id that the insertion renumbers
C32_PendingReplacedNotConsumed_Amended ==
    /\ UpdateReplaces
    /\ PendingKept
    /\ [][Redispatch =>
            /\ Len(stream') = Len(Unwrap(handed))
            /\ Len(stream') = Len(updates)
            /\ \A i \in DOMAIN stream' :
                /\ SameUpdate(stream'[i], Unwrap(handed)[i])
                /\ SameUpdate(stream'[i], updates[i])]_vars

\* a second dispatch without update(x) is delivering the pending updates; the
\* message of one of them was handed over under another id than it is pending with
C32_Witness ==
    /\ ndispatch = 2
    /\ nupdate = 0
    /\ pc = "running"
    /\ IsSome(handling)
    /\ IsSome(handed)
    /\ Len(updates) = 2
    /\ \E i \in DOMAIN updates :
        /\ IsSome(updates[i].message)
        /\ Unwrap(Unwrap(handed)[i].message).id # Unwrap(updates[i].message).id

\* update(x) replaced two pending updates by one
C32_WitnessReplaced ==
    /\ nupdate = 1
    /\ Len(updates) = 1
    /\ updates[1].id = 44

\* the positions of dispatch() follow one another: reset, pre-insertion and
\* hand-over, return
DispatchOrder ==
    [][pc' # pc =>
        \/ pc = "idle" /\ pc' = "reset_done"
        \/ pc = "reset_done" /\ pc' = "running"
        \/ pc = "running" /\ pc' = "idle"]_vars

\* the messages of the updates handed to the dispatcher are in the store
PreInserted(st, ups) ==
    \A i \in DOMAIN ups :
        ups[i].kind = "Message" => Unwrap(ups[i].message).id \in DOMAIN st.messages

\* C33: within one dispatch() the steps are totally ordered: the response log
\* reset completes, then all pending updates' messages are pre-inserted, and
\* only then can the handler task issue its first API call; no API call of a
\* dispatch is handled by the server before that dispatch's reset and
\* pre-insertion, and dispatch() returns only after the handler task has
\* finished.
C33_DispatchStepsOrdered ==
    /\ DispatchOrder
    /\ [](pc = "reset_done" =>
            state.responses = Responses_default /\ last = NoCall /\ made = NoneMade)
    /\ [][(pc = "idle" /\ pc' = "reset_done") => ndispatch' = ndispatch + 1]_vars
    /\ [][(pc = "reset_done" /\ pc' = "running") =>
            /\ PreInserted(state', stream')
            /\ Len(stream') = Len(updates)
            /\ state'.responses = Responses_default
            /\ ncalls' = ncalls]_vars
    /\ [][CallStep => pc = "running" /\ pc' = "running" /\ IsSome(handling)]_vars
    /\ [][(pc = "running" /\ pc' = "idle") => stream = <<>> /\ IsNone(handling)]_vars

\* the handler of the second dispatch has made its first API call, after the
\* reset and the pre-insertion of the message it works on
C33_Witness ==
    /\ ndispatch = 2
    /\ pc = "running"
    /\ IsSome(handling)
    /\ IsSome(Unwrap(handling).message)
    /\ Unwrap(Unwrap(handling).message).id \in DOMAIN state.messages
    /\ Len(state.responses.sent_messages) = 1
    /\ last.op = "SendMessage"

\* the call was answered with an error envelope and changed nothing
RejectedUnchanged ==
    /\ ~last'.resp.ok
    /\ last'.resp.status = 400
    /\ last'.resp.description # ""
    /\ state' = state

\* the call succeeded, appended its request to its log vector and changed
\* nothing else
LoggedOnly ==
    /\ last'.resp.ok
    /\ state' = [state EXCEPT !.responses[VectorOf(last'.op)] = Append(@, last'.body)]
    /\ state'.messages = state.messages

\* C34: PinChatMessage and SetMessageReaction on a message id that is not in
\* the store return an error envelope and append nothing to the log; on an
\* existing id they append the request to their log vector and leave the
\* message store unchanged. UnpinChatMessage checks existence only when
\* message_id is given and always succeeds when it is omitted.
C34_PinReactionUnpin ==
    /\ [][(CallStep /\ last'.op \in {"PinChatMessage", "SetMessageReaction"}) =>
            IF last'.body.message_id \in DOMAIN state.messages
            THEN LoggedOnly
            ELSE RejectedUnchanged]_vars
    /\ [][(CallStep /\ last'.op = "UnpinChatMessage") =>
            IF IsSome(last'.body.message_id)
                    /\ Unwrap(last'.body.message_id) \notin DOMAIN state.messages
            THEN RejectedUnchanged
            ELSE LoggedOnly]_vars

\* an unpin without message_id succeeded on a store that holds no message
C34_Witness ==
    /\ last.op = "UnpinChatMessage"
    /\ IsNone(last.body.message_id)
    /\ last.resp.ok
    /\ DOMAIN state.messages = {}
    /\ Len(state.responses.unpinned_chat_messages) = 1

\* a reaction on an unknown message was rejected after a pin was logged
C34_WitnessRejected ==
    /\ last.op = "SetMessageReaction"
    /\ ~last.resp.ok
    /\ Len(state.responses.pinned_chat_messages) = 1
    /\ state.responses.set_message_reaction = <<>>

\* which of chat_id, message_id and inline_message_id a body carries
Shape(body) ==
    <<IsSome(body.chat_id), IsSome(body.message_id), IsSome(body.inline_message_id)>>

\* the two shapes edit_message_text accepts
AcceptedShapes == {<<TRUE, TRUE, FALSE>>, <<FALSE, FALSE, TRUE>>}

EditStep == CallStep /\ last'.op = "EditMessageText"

\* C35: EditMessageText accepts exactly two argument shapes: (chat_id and
\* message_id present, inline_message_id absent) and (only inline_message_id
\* present); every other combination of the three optional identifiers,
\* including all three present or none present, returns HTTP 400 and changes
\* no state.
C35_EditShapes ==
    /\ [][(EditStep /\ Shape(last'.body) \notin AcceptedShapes) =>
            /\ last'.resp.status = 400
            /\ ~last'.resp.ok
            /\ state' = state]_vars
    /\ [][(EditStep /\ Shape(last'.body) = <<FALSE, FALSE, TRUE>>) =>
            last'.resp.ok /\ last'.resp.status = 200]_vars
    /\ [][(EditStep /\ Shape(last'.body) = <<TRUE, TRUE, FALSE>>) =>
            IF Unwrap(last'.body.message_id) \in DOMAIN state.messages
                    /\ state.messages[Unwrap(last'.body.message_id)].text # Some(last'.body.text)
            THEN /\ last'.resp.ok
                 /\ state'.messages[Unwrap(last'.body.message_id)].text = Some(last'.body.text)
            ELSE /\ ~last'.resp.ok
                 /\ last'.resp.description
                        # "No message_id or inline_message_id were provided"]_vars

\* an edit that carries all three identifiers was rejected while message 1 is stored
C35_Witness ==
    /\ last.op = "EditMessageText"
    /\ Shape(last.body) = <<TRUE, TRUE, TRUE>>
    /\ last.body.message_id = Some(1)
    /\ 1 \in DOMAIN state.messages
    /\ last.resp.status = 400

\* an edit by chat_id and message_id changed the text of message 1
C35_WitnessAccepted ==
    /\ last.op = "EditMessageText"
    /\ Shape(last.body) = <<TRUE, TRUE, FALSE>>
    /\ last.resp.ok
    /\ state.messages[1].text = Some("b")

\* the number a request field holds, or the default when the field is omitted
Supplied(fields, key, default) ==
    IF key \notin DOMAIN fields THEN default
    ELSE IF fields[key] = "5" THEN 5 ELSE 640

\* a step in which an upload endpoint with numeric media fields synthesized a
\* message
MediaStep(op) == CallStep /\ last'.op = op /\ last'.resp.ok

\* the media of the answer, which is also the media of the stored message
AnsweredMedia ==
    Unwrap(state'.messages[Unwrap(last'.resp.message).id].media)

\* C36: when an upload request omits the numeric media fields the synthesized
\* media uses the documented defaults: width and height (or video-note length)
\* 100, duration 0 seconds for audio, animation and video note but 1 second
\* for video; when the request supplies a value, that value is used unchanged.
C36_MediaDefaults ==
    /\ [][MediaStep("SendVideo") =>
            /\ AnsweredMedia.width = Some(Supplied(last'.body.fields, "width", 100))
            /\ AnsweredMedia.height = Some(Supplied(last'.body.fields, "height", 100))
            /\ AnsweredMedia.duration = Some(Supplied(last'.body.fields, "duration", 1))]_vars
    /\ [][MediaStep("SendAnimation") =>
            /\ AnsweredMedia.width = Some(Supplied(last'.body.fields, "width", 100))
            /\ AnsweredMedia.height = Some(Supplied(last'.body.fields, "height", 100))
            /\ AnsweredMedia.duration = Some(Supplied(last'.body.fields, "duration", 0))]_vars
    /\ [][MediaStep("SendAudio") =>
            AnsweredMedia.duration = Some(Supplied(last'.body.fields, "duration", 0))]_vars
    /\ [][MediaStep("SendVideoNote") =>
            /\ AnsweredMedia.length = Some(Supplied(last'.body.fields, "length", 100))
            /\ AnsweredMedia.duration = Some(Supplied(last'.body.fields, "duration", 0))]_vars
    /\ [][(CallStep /\ last'.op \in UploadEndpoints /\ last'.resp.ok) =>
            Unwrap(last'.resp.message).media
                = state'.messages[Unwrap(last'.resp.message).id].media]_vars

\* a video was sent without numeric fields: 100 x 100, one second
C36_Witness ==
    /\ last.op = "SendVideo"
    /\ last.resp.ok
    /\ DOMAIN last.body.fields = {"chat_id"}
    /\ Unwrap(last.resp.message).media = Some(Media(Some(100), Some(100), None, Some(1)))

\* a video note was sent with length 640 and duration 5
C36_WitnessSupplied ==
    /\ last.op = "SendVideoNote"
    /\ last.resp.ok
    /\ "length" \in DOMAIN last.body.fields
    /\ Unwrap(last.resp.message).media = Some(Media(None, None, Some(640), Some(5)))

\* an audio was sent without duration: zero seconds
C36_WitnessAudio ==
    /\ last.op = "SendAudio"
    /\ last.resp.ok
    /\ DOMAIN last.body.fields = {"chat_id"}
    /\ Unwrap(last.resp.message).media = Some(Media(None, None, None, Some(0)))

\* a call of stop() returned in this step
StopReturned == Len(server'.stops) = Len(server.stops) + 1

\* C37: the async stop() cancels the cancel signal and waits for the server
\* task to finish: the first call returns Some only after the server task has
\* completed, and every later call returns None without waiting.
C37_StopWaitsOnce ==
    /\ [](pc = "stopping" => server.cancelled /\ server.stops = <<>>)
    /\ [](\A i \in DOMAIN server.stops :
            server.stops[i] = IF i = 1 THEN "Some" ELSE "None")
    /\ [][StopReturned => server'.cancelled]_vars
    /\ [][(StopReturned /\ server.stops = <<>>) =>
            /\ pc = "stopping"
            /\ task_finished(server)
            /\ server'.stops = <<"Some">>]_vars
    /\ [][(StopReturned /\ server.stops # <<>>) =>
            /\ pc = "idle"
            /\ pc' = "idle"
            /\ server'.stops = Append(server.stops, "None")]_vars

\* stop() was called twice on a server that served: Some after the task had
\* stopped, then None
C37_Witness ==
    /\ server.stops = <<"Some", "None">>
    /\ server.task = "stopped"
    /\ server.ready

\* stop() is waiting for a server task that still serves
C37_WitnessWaiting ==
    /\ pc = "stopping"
    /\ server.task = "serving"
    /\ server.cancelled

\* the step on which ServerManager::start returns Ok(ServerManager)
StartReturns == pc = "starting" /\ pc' = "idle"

\* C40: when ServerManager::start returns Ok, a server is serving on the port
\* it reports; a create_server that failed in the server task does not end in
\* an Ok with a port nothing listens on.
C40_StartOkServes ==
    [][StartReturns => api_url' = Some(server'.port) /\ Served']_vars

\* C40, when create_server succeeds: the port start reports is served
C40_StartOkServes_Created ==
    [][StartReturns /\ server.task # "failed"
        => api_url' = Some(server'.port) /\ Served']_vars

\* start has returned Ok with a port although the server task has ended with
\* the error of create_server, and nothing has stopped or cancelled it
C40_WitnessUnserved ==
    /\ pc = "idle"
    /\ api_url = Some(server.port)
    /\ server.port \in Ports
    /\ ~Served
    /\ server.task = "failed"
    /\ ~server.cancelled
    /\ IsNone(server.stop)

====
